---- MODULE Spec2Model ----
(***************************************************************************)
(* A model of the Setun emulator core: the balanced-ternary numeric        *)
(* kernel (src/ternary), the instruction codec (src/cpu/decode.rs), the    *)
(* memory and register file (src/cpu/memory.rs, src/cpu/registers.rs),     *)
(* the execution engine (src/cpu/execute.rs) and the two-pass assembler    *)
(* (src/asm/assembler.rs).                                                 *)
(*                                                                         *)
(* A trit is one of the strings "N", "O", "P".  A word of n trits is a     *)
(* function from 0..n-1 (index 0 least significant) to trits, exactly as   *)
(* the arrays of the source.                                               *)
(***************************************************************************)
EXTENDS Integers, Sequences, FiniteSets, TLC

\* ------------------------------------------------------------------------
\* Bounds of the model
\* ------------------------------------------------------------------------

\* Cap on the cycle counter: step() and run() are only explored while
\* cycles < MaxCycles, and run_limited() is only called with a budget that
\* ends at or below MaxCycles.
MaxCycles == 4

\* The numeric kernel is exercised on the words of value -MaxVal..MaxVal and
\* on the words within MaxVal of either end of the 18-trit range.
MaxVal == 7

\* ------------------------------------------------------------------------
\* Trit (src/ternary/trit.rs)
\* ------------------------------------------------------------------------

Trit == {"N", "O", "P"}

to_i8(t) == CASE t = "N" -> -1 [] t = "O" -> 0 [] t = "P" -> 1

Trit_neg(t) == CASE t = "N" -> "P" [] t = "O" -> "O" [] t = "P" -> "N"

Trit_any(t, other) == IF t = "O" THEN other ELSE t

\* A half-adder sum that keeps its left argument when the two cancel.
Trit_sum_left(t, other) ==
    LET total == to_i8(t) + to_i8(other)
    IN  CASE total = -2 -> "P"
          [] total = -1 -> "N"
          [] total = 0  -> t
          [] total = 1  -> "P"
          [] total = 2  -> "N"

Trit_sum(t, other) ==
    LET total == to_i8(t) + to_i8(other)
    IN  CASE total = -2 -> "P"
          [] total = -1 -> "N"
          [] total = 0  -> "O"
          [] total = 1  -> "P"
          [] total = 2  -> "N"

Trit_carry(t, other) ==
    LET total == to_i8(t) + to_i8(other)
    IN  CASE total = -2 -> "N"
          [] total = 2  -> "P"
          [] OTHER      -> "O"

\* (sum, carry_out) of three trits, as a pair <<sum, carry_out>>.
full_add(t, other, carry_in) ==
    LET s1  == Trit_sum(t, other)
        c1  == Trit_carry(t, other)
        sum == Trit_sum(s1, carry_in)
        c2  == Trit_carry(s1, carry_in)
        carry_out == Trit_any(c1, c2)
    IN  <<sum, carry_out>>

Trit_mul(t, other) ==
    CASE t = "O" \/ other = "O" -> "O"
      [] t = other              -> "P"
      [] OTHER                  -> "N"

Trit_is_zero(t) == t = "O"

\* ------------------------------------------------------------------------
\* Fixed-width words (src/ternary/word.rs, Tryte5 of src/cpu/registers.rs)
\* ------------------------------------------------------------------------

Tryte9_WIDTH == 9
Word18_WIDTH == 18
Tryte5_WIDTH == 5

Tryte9_MAX == 9841
Tryte9_MIN == -9841
Word18_MAX == 193710244
Word18_MIN == -193710244
Tryte5_MAX == 121
Tryte5_MIN == -121

Tryte9 == [0..(Tryte9_WIDTH - 1) -> Trit]

Tryte9_zero == [i \in 0..(Tryte9_WIDTH - 1) |-> "O"]
Word18_zero == [i \in 0..(Word18_WIDTH - 1) |-> "O"]
Tryte5_zero == [i \in 0..(Tryte5_WIDTH - 1) |-> "O"]

\* The conversion loop shared by the three from_i32/from_i64 functions: the
\* trits i..n-1 produced from the non-negative `value`, as a sequence.
RECURSIVE FromMagnitude(_, _, _)
FromMagnitude(value, i, n) ==
    IF i >= n THEN << >>
    ELSE LET remainder == (value % 3) + 1
             trit  == CASE remainder = 1 -> "O"
                        [] remainder = 2 -> "P"
                        [] remainder = 3 -> "N"
             carry == IF remainder = 3 THEN 1 ELSE 0
         IN  <<trit>> \o FromMagnitude((value \div 3) + carry, i + 1, n)

\* The conversion without the final negation of a negative value.
FromInt_magnitude(value, n) ==
    LET negative == value < 0
        mag      == IF negative THEN -value ELSE value
        trits    == FromMagnitude(mag, 0, n)
    IN  [i \in 0..(n - 1) |-> trits[i + 1]]

\* from_i32 / from_i64 without the range assertion.
FromInt(value, n) ==
    LET negative == value < 0
        mag      == IF negative THEN -value ELSE value
        trits    == FromMagnitude(mag, 0, n)
    IN  [i \in 0..(n - 1) |->
            IF negative THEN Trit_neg(trits[i + 1]) ELSE trits[i + 1]]

\* The value a failed range assertion leaves behind: the call panics.
Panic == "panic"

Tryte9_from_i32(value) ==
    IF value >= Tryte9_MIN /\ value <= Tryte9_MAX
    THEN FromInt(value, Tryte9_WIDTH) ELSE Panic

Word18_from_i64(value) ==
    IF value >= Word18_MIN /\ value <= Word18_MAX
    THEN FromInt(value, Word18_WIDTH) ELSE Panic

Tryte5_from_i32(value) ==
    IF value >= Tryte5_MIN /\ value <= Tryte5_MAX
    THEN FromInt(value, Tryte5_WIDTH) ELSE Panic

\* The accumulation loop of to_i32 / to_i64 from index i with `power` = 3^i.
RECURSIVE ToInt(_, _, _, _)
ToInt(w, i, n, power) ==
    IF i >= n THEN 0
    ELSE to_i8(w[i]) * power + ToInt(w, i + 1, n, power * 3)

Tryte9_to_i32(w) == ToInt(w, 0, Tryte9_WIDTH, 1)
Word18_to_i64(w) == ToInt(w, 0, Word18_WIDTH, 1)
Tryte5_to_i32(w) == ToInt(w, 0, Tryte5_WIDTH, 1)

Tryte9_neg(w) == [i \in 0..(Tryte9_WIDTH - 1) |-> Trit_neg(w[i])]
\* A negation that leaves the high half of the word as it is.
Word18_neg_low(w) ==
    [i \in 0..(Word18_WIDTH - 1) |-> IF i < Tryte9_WIDTH THEN Trit_neg(w[i]) ELSE w[i]]

Word18_neg(w) == [i \in 0..(Word18_WIDTH - 1) |-> Trit_neg(w[i])]

Word18_is_zero(w) == \A i \in 0..(Word18_WIDTH - 1) : Trit_is_zero(w[i])

\* The leading non-zero trit, scanning down from index i.
RECURSIVE SignFrom(_, _)
SignFrom(w, i) ==
    IF i < 0 THEN "O"
    ELSE IF ~Trit_is_zero(w[i]) THEN w[i] ELSE SignFrom(w, i - 1)

\* sign taken from the lowest trit.
Word18_sign_lowest(w) == w[0]

Word18_sign(w) == SignFrom(w, Word18_WIDTH - 1)

Tryte9_to_word18(w) ==
    [i \in 0..(Word18_WIDTH - 1) |-> IF i < Tryte9_WIDTH THEN w[i] ELSE "O"]

\* The high half of the word instead of the low half.
Word18_low_upper(w) == [i \in 0..(Tryte9_WIDTH - 1) |-> w[i + Tryte9_WIDTH]]

Word18_low(w) == [i \in 0..(Tryte9_WIDTH - 1) |-> w[i]]

Tryte5_to_tryte9(w) ==
    [i \in 0..(Tryte9_WIDTH - 1) |-> IF i < Tryte5_WIDTH THEN w[i] ELSE "O"]

\* ------------------------------------------------------------------------
\* Arithmetic kernel (src/ternary/arith.rs)
\* ------------------------------------------------------------------------

\* The ripple loop of add; st holds the loop variables i, result and carry.
RECURSIVE AddLoop(_, _, _)
AddLoop(a, b, st) ==
    IF st.i >= Word18_WIDTH THEN <<st.result, st.carry>>
    ELSE LET fa == full_add(a[st.i], b[st.i], st.carry)
         IN  AddLoop(a, b, [i |-> st.i + 1,
                            result |-> [st.result EXCEPT ![st.i] = fa[1]],
                            carry |-> fa[2]])

add(a, b) == AddLoop(a, b, [i |-> 0, result |-> Word18_zero, carry |-> "O"])

subtract(a, b) == add(a, Word18_neg(b))

\* The inner loop of multiply for row i; st holds the loop variables j,
\* product and carry.
RECURSIVE MulInner(_, _, _, _)
MulInner(a, b, i, st) ==
    IF st.j >= Word18_WIDTH THEN st
    ELSE LET partial == Trit_mul(a[i], b[st.j])
             r1 == full_add(st.product[i + st.j], partial, "O")
             r2 == full_add(r1[1], st.carry, "O")
         IN  MulInner(a, b, i,
                      [j |-> st.j + 1,
                       product |-> [st.product EXCEPT ![i + st.j] = r2[1]],
                       carry |-> Trit_any(r1[2], r2[2])])

\* The carry propagation loop of multiply; st holds k, product and carry.
RECURSIVE MulPropagate(_)
MulPropagate(st) ==
    IF ~(~Trit_is_zero(st.carry) /\ st.k < 2 * Word18_WIDTH) THEN st.product
    ELSE LET fa == full_add(st.product[st.k], st.carry, "O")
         IN  MulPropagate([k |-> st.k + 1,
                           product |-> [st.product EXCEPT ![st.k] = fa[1]],
                           carry |-> fa[2]])

\* The outer loop of multiply; st holds the loop variables i and product.
RECURSIVE MulOuter(_, _, _)
MulOuter(a, b, st) ==
    IF st.i >= Word18_WIDTH THEN st.product
    ELSE IF Trit_is_zero(a[st.i])
    THEN MulOuter(a, b, [i |-> st.i + 1, product |-> st.product])
    ELSE LET inner == MulInner(a, b, st.i,
                               [j |-> 0, product |-> st.product, carry |-> "O"])
         IN  MulOuter(a, b,
                      [i |-> st.i + 1,
                       product |-> MulPropagate([k |-> st.i + Word18_WIDTH,
                                                 product |-> inner.product,
                                                 carry |-> inner.carry])])

\* <<low, high>> halves of the 36-trit product.
multiply(a, b) ==
    LET product == MulOuter(a, b, [i |-> 0,
                                   product |-> [k \in 0..(2 * Word18_WIDTH - 1) |-> "O"]])
    IN  << [i \in 0..(Word18_WIDTH - 1) |-> product[i]],
           [i \in 0..(Word18_WIDTH - 1) |-> product[i + Word18_WIDTH]] >>

\* shift_left moving each trit one place too far.
shift_left_further(a, n) ==
    IF n >= Word18_WIDTH THEN Word18_zero
    ELSE [k \in 0..(Word18_WIDTH - 1) |-> IF k >= n + 1 THEN a[k - n - 1] ELSE "O"]

shift_left(a, n) ==
    IF n >= Word18_WIDTH THEN Word18_zero
    ELSE [k \in 0..(Word18_WIDTH - 1) |-> IF k >= n THEN a[k - n] ELSE "O"]

\* shift_right moving each trit one place too far.
shift_right_further(a, n) ==
    IF n >= Word18_WIDTH THEN Word18_zero
    ELSE [k \in 0..(Word18_WIDTH - 1) |->
             IF k + n + 1 < Word18_WIDTH THEN a[k + n + 1] ELSE "O"]

shift_right(a, n) ==
    IF n >= Word18_WIDTH THEN Word18_zero
    ELSE [k \in 0..(Word18_WIDTH - 1) |->
             IF k + n < Word18_WIDTH THEN a[k + n] ELSE "O"]

\* ------------------------------------------------------------------------
\* Instruction codec (src/cpu/decode.rs)
\* ------------------------------------------------------------------------

AddrMode == {"Direct", "IndexAdd", "IndexSub"}

AddrMode_from_trit(t) ==
    CASE t = "O" -> "Direct" [] t = "P" -> "IndexAdd" [] t = "N" -> "IndexSub"

\* to_trit with the two index modes exchanged.
AddrMode_to_trit_exchanged(m) ==
    CASE m = "Direct" -> "O" [] m = "IndexAdd" -> "N" [] m = "IndexSub" -> "P"

AddrMode_to_trit(m) ==
    CASE m = "Direct" -> "O" [] m = "IndexAdd" -> "P" [] m = "IndexSub" -> "N"

Opcode_ADD == 1
Opcode_SUB == -1
Opcode_MUL == 2
Opcode_DIV == -2
Opcode_LDA == 3
Opcode_STA == -3
Opcode_LDF == 4
Opcode_STF == -4
Opcode_JMP == 5
Opcode_JZ == 6
Opcode_JP == 7
Opcode_JN == -7
Opcode_HLT == 0
Opcode_NOP == 8
Opcode_SHL == 9
Opcode_SHR == -9
Opcode_LDR == 10
Opcode_STR == -10
Opcode_ADDABS == 11
Opcode_SUBABS == -11
Opcode_XCHG == 12
Opcode_JOP == 13
Opcode_JON == -13
Opcode_TST == 14
Opcode_LDAU == -5

\* The variants of Instruction that carry (addr, mode).
AddrOps == {"Add", "Sub", "Mul", "Div", "AddAbs", "SubAbs",
            "Lda", "Sta", "LdaUnsigned", "Ldf", "Stf", "Ldr", "Str", "Xchg",
            "Jmp", "Jz", "Jp", "Jn", "Jop", "Jon"}

JumpOps == {"Jmp", "Jz", "Jp", "Jn", "Jop", "Jon"}

ShiftOps == {"Shl", "Shr"}

PlainOps == {"Hlt", "Nop", "Tst"}

\* Constructors of Instruction values.
AddrInstr(op, addr, mode) == [op |-> op, addr |-> addr, mode |-> mode]
ShiftInstr(op, count) == [op |-> op, count |-> count]
PlainInstr(op) == [op |-> op]

Ok(v) == [ok |-> TRUE, val |-> v]
Err(e) == [ok |-> FALSE, err |-> e]

InvalidOpcode(v) == [kind |-> "DecodeError", what |-> "InvalidOpcode", val |-> v]

\* The match of decode on the opcode field, with the fields decode extracted.
DecodeMatch(op_val, mode, addr_val, addr) ==
        CASE op_val = Opcode_ADD    -> Ok(AddrInstr("Add", addr, mode))
          [] op_val = Opcode_SUB    -> Ok(AddrInstr("Sub", addr, mode))
          [] op_val = Opcode_MUL    -> Ok(AddrInstr("Mul", addr, mode))
          [] op_val = Opcode_DIV    -> Ok(AddrInstr("Div", addr, mode))
          [] op_val = Opcode_LDA    -> Ok(AddrInstr("Lda", addr, mode))
          [] op_val = Opcode_STA    -> Ok(AddrInstr("Sta", addr, mode))
          [] op_val = Opcode_LDAU   -> Ok(AddrInstr("LdaUnsigned", addr, mode))
          [] op_val = Opcode_LDF    -> Ok(AddrInstr("Ldf", addr, mode))
          [] op_val = Opcode_STF    -> Ok(AddrInstr("Stf", addr, mode))
          [] op_val = Opcode_LDR    -> Ok(AddrInstr("Ldr", addr, mode))
          [] op_val = Opcode_STR    -> Ok(AddrInstr("Str", addr, mode))
          [] op_val = Opcode_XCHG   -> Ok(AddrInstr("Xchg", addr, mode))
          [] op_val = Opcode_ADDABS -> Ok(AddrInstr("AddAbs", addr, mode))
          [] op_val = Opcode_SUBABS -> Ok(AddrInstr("SubAbs", addr, mode))
          [] op_val = Opcode_JMP    -> Ok(AddrInstr("Jmp", addr, mode))
          [] op_val = Opcode_JZ     -> Ok(AddrInstr("Jz", addr, mode))
          [] op_val = Opcode_JP     -> Ok(AddrInstr("Jp", addr, mode))
          [] op_val = Opcode_JN     -> Ok(AddrInstr("Jn", addr, mode))
          [] op_val = Opcode_JOP    -> Ok(AddrInstr("Jop", addr, mode))
          [] op_val = Opcode_JON    -> Ok(AddrInstr("Jon", addr, mode))
          [] op_val = Opcode_HLT    -> Ok(PlainInstr("Hlt"))
          [] op_val = Opcode_NOP    -> Ok(PlainInstr("Nop"))
          [] op_val = Opcode_TST    -> Ok(PlainInstr("Tst"))
          [] op_val = Opcode_SHL    -> Ok(ShiftInstr("Shl", addr_val))
          [] op_val = Opcode_SHR    -> Ok(ShiftInstr("Shr", addr_val))
          [] OTHER                  -> Err(InvalidOpcode(op_val))

\* An opcode field read with trits 7 and 6 exchanged.
OpVal_swapped(trits) == to_i8(trits[8]) * 9 + to_i8(trits[6]) * 3 + to_i8(trits[7])

\* An opcode field read one too high.
OpVal_raised(trits) == to_i8(trits[8]) * 9 + to_i8(trits[7]) * 3 + to_i8(trits[6]) + 1

\* The opcode field of a word: trits 8..6.
OpVal(trits) == to_i8(trits[8]) * 9 + to_i8(trits[7]) * 3 + to_i8(trits[6])

\* The operand field of a word: trits 4..0.
AddrVal(trits) ==
    to_i8(trits[4]) * 81 + to_i8(trits[3]) * 27 + to_i8(trits[2]) * 9
    + to_i8(trits[1]) * 3 + to_i8(trits[0])

\* A decode that refuses HLT and NOP words with a mode or an operand.
decode_strict(nitrit) ==
    IF /\ OpVal(nitrit) \in {Opcode_HLT, Opcode_NOP}
       /\ (nitrit[5] # "O" \/ AddrVal(nitrit) # 0)
    THEN Err(InvalidOpcode(OpVal(nitrit)))
    ELSE DecodeMatch(OpVal(nitrit), AddrMode_from_trit(nitrit[5]), AddrVal(nitrit),
                     Tryte9_from_i32(AddrVal(nitrit)))

decode(nitrit) ==
    DecodeMatch(OpVal(nitrit), AddrMode_from_trit(nitrit[5]), AddrVal(nitrit),
                Tryte9_from_i32(AddrVal(nitrit)))

\* The (opcode, addr, mode) triple encode takes from an instruction.
EncodeFields(instr) ==
    LET A(opcode) == <<opcode, Tryte9_to_i32(instr.addr), instr.mode>>
    IN  CASE instr.op = "Add"         -> A(Opcode_ADD)
          [] instr.op = "Sub"         -> A(Opcode_SUB)
          [] instr.op = "Mul"         -> A(Opcode_MUL)
          [] instr.op = "Div"         -> A(Opcode_DIV)
          [] instr.op = "Lda"         -> A(Opcode_LDA)
          [] instr.op = "Sta"         -> A(Opcode_STA)
          [] instr.op = "LdaUnsigned" -> A(Opcode_LDAU)
          [] instr.op = "Ldf"         -> A(Opcode_LDF)
          [] instr.op = "Stf"         -> A(Opcode_STF)
          [] instr.op = "Ldr"         -> A(Opcode_LDR)
          [] instr.op = "Str"         -> A(Opcode_STR)
          [] instr.op = "Xchg"        -> A(Opcode_XCHG)
          [] instr.op = "AddAbs"      -> A(Opcode_ADDABS)
          [] instr.op = "SubAbs"      -> A(Opcode_SUBABS)
          [] instr.op = "Jmp"         -> A(Opcode_JMP)
          [] instr.op = "Jz"          -> A(Opcode_JZ)
          [] instr.op = "Jp"          -> A(Opcode_JP)
          [] instr.op = "Jn"          -> A(Opcode_JN)
          [] instr.op = "Jop"         -> A(Opcode_JOP)
          [] instr.op = "Jon"         -> A(Opcode_JON)
          [] instr.op = "Hlt"         -> <<Opcode_HLT, 0, "Direct">>
          [] instr.op = "Nop"         -> <<Opcode_NOP, 0, "Direct">>
          [] instr.op = "Tst"         -> <<Opcode_TST, 0, "Direct">>
          [] instr.op = "Shl"         -> <<Opcode_SHL, instr.count, "Direct">>
          [] instr.op = "Shr"         -> <<Opcode_SHR, instr.count, "Direct">>

encode(instr) ==
    LET fields == EncodeFields(instr)
        opcode == fields[1]
        addr   == fields[2]
        mode   == fields[3]
        \* low 5 trits: the magnitude loop for addr >= 0; for addr < 0 the loop's
        \* trits are overwritten by those of Tryte9::from_i32(addr)
        addr_work     == IF addr < 0 THEN -addr ELSE addr
        addr_negative == addr < 0
        addr_loop     == FromMagnitude(addr_work, 0, Tryte5_WIDTH)
        proper_addr   == Tryte9_from_i32(addr)
        \* high 3 trits: the magnitude loop on |opcode|, negated for opcode < 0
        op_work     == IF opcode < 0 THEN -opcode ELSE opcode
        op_negative == opcode < 0
        op_loop     == FromMagnitude(op_work, 0, 3)
    IN  [i \in 0..(Tryte9_WIDTH - 1) |->
            IF i < 5 THEN (IF addr_negative THEN proper_addr[i] ELSE addr_loop[i + 1])
            ELSE IF i = 5 THEN AddrMode_to_trit(mode)
            ELSE IF op_negative THEN Trit_neg(op_loop[i - 6 + 1])
            ELSE op_loop[i - 6 + 1]]

\* ------------------------------------------------------------------------
\* Memory (src/cpu/memory.rs)
\* ------------------------------------------------------------------------

MEMORY_SIZE == 162

\* `x as usize` of a signed x: a negative x wraps to the top of the usize range.
\* The wrap is taken modulo 2^30 instead of 2^64 (or 2^32 on wasm32), the
\* largest power the checker's integers leave room for; every x the engine
\* converts has |x| < 2^14, so each comparison of the result with 18 or with
\* MEMORY_SIZE comes out as it does in the build.
\* A cast that drops the sign of the count.
AsUsize_magnitude(x) == IF x < 0 THEN -x ELSE x

AsUsize(x) == IF x < 0 THEN 1073741824 + x ELSE x

Memory_new == [i \in 0..(MEMORY_SIZE - 1) |-> Tryte9_zero]

AddressOutOfRange(v) == [kind |-> "MemoryError", what |-> "AddressOutOfRange", val |-> v]

\* The bounds check of addr_to_index on the converted index.
CheckIndex(signed_addr, index) ==
    IF index >= MEMORY_SIZE THEN Err(AddressOutOfRange(signed_addr)) ELSE Ok(index)

\* addr_to_index adding 80.
addr_to_index_off(addr) ==
    CheckIndex(Tryte9_to_i32(addr), AsUsize(Tryte9_to_i32(addr) + 80))

addr_to_index(addr) ==
    CheckIndex(Tryte9_to_i32(addr), AsUsize(Tryte9_to_i32(addr) + 81))

\* read_ternary once the index is known: Ok(cell) or the error.
ReadAt(cells, index) == IF ~index.ok THEN index ELSE Ok(cells[index.val])

read_ternary(cells, addr) == ReadAt(cells, addr_to_index(addr))

\* A write that also lands in the first cell.
WriteAt_spill(cells, index, value) ==
    IF ~index.ok THEN index
    ELSE Ok([i \in DOMAIN cells |-> IF i = index.val \/ i = 0 THEN value ELSE cells[i]])

\* write_ternary once the index is known: Ok(new cells) or the error.
WriteAt(cells, index, value) ==
    IF ~index.ok THEN index ELSE Ok([cells EXCEPT ![index.val] = value])

write_ternary(cells, addr, value) == WriteAt(cells, addr_to_index(addr), value)

\* clear zeroing only the first cell.
Memory_clear_first(cells) == [cells EXCEPT ![0] = Tryte9_zero]

Memory_clear(cells) == [i \in DOMAIN cells |-> Tryte9_zero]

ProgramTooLarge(size, available) ==
    [kind |-> "MemoryError", what |-> "ProgramTooLarge", size |-> size,
     available |-> available]

\* A call that panicked instead of returning.
Panicked == [ok |-> FALSE, panic |-> Panic]

\* The outcomes of the usize subtraction x - y: below zero it panics in a
\* build with overflow checks (cargo's dev and test profiles) and wraps in a
\* build without (the release profile).
SubUsize(x, y) == IF x >= y THEN {Ok(x - y)} ELSE {Panicked, Ok(AsUsize(x - y))}

\* The refusal of load_program once `available` has been computed.
TooLarge(size, available) ==
    IF available.ok THEN Err(ProgramTooLarge(size, available.val)) ELSE available

\* The outcomes of load_program: Ok(new cells), the error, or a panic;
\* program is a sequence of words.
Memory_load_program(cells, start_addr, program) ==
    IF start_addr + Len(program) > MEMORY_SIZE
    THEN {TooLarge(Len(program), av) : av \in SubUsize(MEMORY_SIZE, start_addr)}
    ELSE {Ok([i \in 0..(MEMORY_SIZE - 1) |->
                 IF i >= start_addr /\ i < start_addr + Len(program)
                 THEN program[i - start_addr + 1] ELSE cells[i]])}

\* ------------------------------------------------------------------------
\* Registers (src/cpu/registers.rs)
\* ------------------------------------------------------------------------

Registers_new ==
    [s |-> Word18_zero, r |-> Word18_zero, f |-> Tryte5_zero,
     c |-> Tryte9_zero, omega |-> "O"]

\* A reset that forgets omega.
Registers_reset_keeping_omega(rg) ==
    [rg EXCEPT !.s = Word18_zero, !.r = Word18_zero, !.f = Tryte5_zero,
               !.c = Tryte9_zero]

Registers_reset(rg) ==
    [rg EXCEPT !.s = Word18_zero, !.r = Word18_zero, !.f = Tryte5_zero,
               !.c = Tryte9_zero, !.omega = "O"]

set_omega(rg, sign) == [rg EXCEPT !.omega = sign]

\* advance_pc adding two.
advance_pc_twice(rg) ==
    LET new_val == Tryte9_to_i32(rg.c) + 2
    IN  [rg EXCEPT !.c = Tryte9_from_i32(new_val)]

advance_pc(rg) ==
    LET new_val == Tryte9_to_i32(rg.c) + 1
    IN  [rg EXCEPT !.c = Tryte9_from_i32(new_val)]

\* A jump to twice the address.
jump_doubled(rg, addr) == [rg EXCEPT !.c = Tryte9_from_i32(2 * Tryte9_to_i32(addr))]

jump(rg, addr) == [rg EXCEPT !.c = addr]

\* effective_address subtracting F in both indexed modes.
effective_address_sub(rg, base_addr, mode) ==
    LET base  == Tryte9_to_i32(base_addr)
        f_val == Tryte5_to_i32(rg.f)
        effective == CASE mode = "P" -> base - f_val
                       [] mode = "O" -> base
                       [] mode = "N" -> base - f_val
    IN  Tryte9_from_i32(effective)

effective_address(rg, base_addr, mode) ==
    LET base  == Tryte9_to_i32(base_addr)
        f_val == Tryte5_to_i32(rg.f)
        effective == CASE mode = "P" -> base + f_val
                       [] mode = "O" -> base
                       [] mode = "N" -> base - f_val
    IN  Tryte9_from_i32(effective)

\* ------------------------------------------------------------------------
\* Execution engine (src/cpu/execute.rs)
\* ------------------------------------------------------------------------

CpuState == {"Running", "Halted", "Error"}

None == [some |-> FALSE]
Some(v) == [some |-> TRUE, val |-> v]

NotRunning(st) == [kind |-> "NotRunning", state |-> st]
DivisionByZero == [kind |-> "DivisionByZero"]
Overflow == [kind |-> "Overflow"]

\* Rust's integer division and remainder (truncation toward zero).
Abs(x) == IF x < 0 THEN -x ELSE x
\* division rounding toward minus infinity.
TruncDiv_floor(x, y) == IF y > 0 THEN x \div y ELSE (-x) \div (-y)

TruncDiv(x, y) ==
    IF (x < 0) = (y < 0) THEN Abs(x) \div Abs(y) ELSE -(Abs(x) \div Abs(y))
TruncRem(x, y) == x - y * TruncDiv(x, y)

Cpu_new ==
    [regs |-> Registers_new, mem |-> Memory_new, state |-> "Running",
     cycles |-> 0, last_instr |-> None]

\* The zero-extension load_word applies to what read_ternary returned.
ExtendRead(value) == IF ~value.ok THEN value ELSE Ok(Tryte9_to_word18(value.val))

\* load_word: Ok(word) or the memory error.
load_word(cpu, addr) == ExtendRead(read_ternary(cpu.mem, addr))

\* Set S and then omega from the sign of the new S.
SetSOmega(cpu, w) ==
    [cpu EXCEPT !.regs = set_omega([cpu.regs EXCEPT !.s = w], Word18_sign(w))]

\* |operand| as ADDABS / SUBABS compute it.
AbsOperand(operand) ==
    IF Word18_sign(operand) = "N" THEN Word18_neg(operand) ELSE operand

\* Low 5 trits of a cell as LDF converts them.
LdfValue(value) ==
    Tryte5_from_i32(to_i8(value[0]) * 1 + to_i8(value[1]) * 3 + to_i8(value[2]) * 9
                    + to_i8(value[3]) * 27 + to_i8(value[4]) * 81)

\* The MUL arm once the product is known.
MulResult(cpu, lh) == SetSOmega([cpu EXCEPT !.regs.r = lh[1]], lh[2])

\* The DIV arm for a non-zero divisor.
DivResult(cpu, dividend, divisor_val) ==
    SetSOmega([cpu EXCEPT !.regs.r = Word18_from_i64(TruncRem(dividend, divisor_val))],
              Word18_from_i64(TruncDiv(dividend, divisor_val)))

\* The same arms with an ADD that traps when add returns a carry.
ExecArith_trapping(cpu, op, operand) ==
    IF ~operand.ok THEN operand
    ELSE CASE op = "Add" ->
                IF add(cpu.regs.s, operand.val)[2] # "O" THEN Err(Overflow)
                ELSE Ok(SetSOmega(cpu, add(cpu.regs.s, operand.val)[1]))
           [] op = "Sub" -> Ok(SetSOmega(cpu, subtract(cpu.regs.s, operand.val)[1]))
           [] op = "Mul" -> Ok(MulResult(cpu, multiply(cpu.regs.s, operand.val)))
           [] op = "Div" ->
                IF Word18_is_zero(operand.val) THEN Err(DivisionByZero)
                ELSE Ok(DivResult(cpu, Word18_to_i64(cpu.regs.s),
                                  Word18_to_i64(operand.val)))
           [] op = "AddAbs" ->
                Ok(SetSOmega(cpu, add(cpu.regs.s, AbsOperand(operand.val))[1]))
           [] op = "SubAbs" ->
                Ok(SetSOmega(cpu, subtract(cpu.regs.s, AbsOperand(operand.val))[1]))

\* The arms of execute that load their operand with load_word, after the load.
ExecArith(cpu, op, operand) ==
    IF ~operand.ok THEN operand
    ELSE CASE op = "Add" -> Ok(SetSOmega(cpu, add(cpu.regs.s, operand.val)[1]))
           [] op = "Sub" -> Ok(SetSOmega(cpu, subtract(cpu.regs.s, operand.val)[1]))
           [] op = "Mul" -> Ok(MulResult(cpu, multiply(cpu.regs.s, operand.val)))
           [] op = "Div" ->
                IF Word18_is_zero(operand.val) THEN Err(DivisionByZero)
                ELSE Ok(DivResult(cpu, Word18_to_i64(cpu.regs.s),
                                  Word18_to_i64(operand.val)))
           [] op = "AddAbs" ->
                Ok(SetSOmega(cpu, add(cpu.regs.s, AbsOperand(operand.val))[1]))
           [] op = "SubAbs" ->
                Ok(SetSOmega(cpu, subtract(cpu.regs.s, AbsOperand(operand.val))[1]))

\* The second half of the XCHG arm: the write and the load of S.
XchgResult(cpu, cells, mem_value) ==
    IF ~cells.ok THEN cells
    ELSE Ok(SetSOmega([cpu EXCEPT !.mem = cells.val], Tryte9_to_word18(mem_value)))

\* The arms of execute that read their cell with read_ternary, after the read.
ExecLoad(cpu, op, eff_addr, value) ==
    IF ~value.ok THEN value
    ELSE CASE op = "Lda" -> Ok(SetSOmega(cpu, Tryte9_to_word18(value.val)))
           [] op = "LdaUnsigned" -> Ok(SetSOmega(cpu, Tryte9_to_word18(value.val)))
           [] op = "Ldf" -> Ok([cpu EXCEPT !.regs.f = LdfValue(value.val)])
           [] op = "Ldr" -> Ok([cpu EXCEPT !.regs.r = Tryte9_to_word18(value.val)])
           [] op = "Xchg" ->
                XchgResult(cpu,
                           write_ternary(cpu.mem, eff_addr, Word18_low(cpu.regs.s)),
                           value.val)

\* The store arms of execute, after write_ternary.
ExecStore(cpu, cells) ==
    IF ~cells.ok THEN cells ELSE Ok([cpu EXCEPT !.mem = cells.val])

\* The value STA, STF and STR store.
StoreValue(cpu, op) ==
    CASE op = "Sta" -> Word18_low(cpu.regs.s)
      [] op = "Stf" -> Tryte5_to_tryte9(cpu.regs.f)
      [] op = "Str" -> Word18_low(cpu.regs.r)

\* A jump condition that always holds.
JumpTaken_always(cpu, op) == TRUE

\* The condition of each jump.
JumpTaken(cpu, op) ==
    CASE op = "Jmp" -> TRUE
      [] op = "Jz"  -> Word18_is_zero(cpu.regs.s)
      [] op = "Jp"  -> Word18_sign(cpu.regs.s) = "P"
      [] op = "Jn"  -> Word18_sign(cpu.regs.s) = "N"
      [] op = "Jop" -> cpu.regs.omega = "P"
      [] op = "Jon" -> cpu.regs.omega = "N"

ArithOps == {"Add", "Sub", "Mul", "Div", "AddAbs", "SubAbs"}
LoadOps  == {"Lda", "LdaUnsigned", "Ldf", "Ldr", "Xchg"}
StoreOps == {"Sta", "Stf", "Str"}

\* The arms of execute for the variants that carry (addr, mode); eff_addr is
\* the effective address the arm computes first (a jump not taken never
\* computes it).
ExecAddr(cpu, op, eff_addr) ==
    CASE op \in ArithOps -> ExecArith(cpu, op, load_word(cpu, eff_addr))
      [] op \in LoadOps  -> ExecLoad(cpu, op, eff_addr, read_ternary(cpu.mem, eff_addr))
      [] op \in StoreOps ->
           ExecStore(cpu, write_ternary(cpu.mem, eff_addr, StoreValue(cpu, op)))
      [] op \in JumpOps  ->
           IF JumpTaken(cpu, op) THEN Ok([cpu EXCEPT !.regs = jump(cpu.regs, eff_addr)])
           ELSE Ok(cpu)

\* execute: Ok(cpu after the instruction) or Err(error); every arm fails
\* before its first assignment, so a failed execute leaves the engine as it
\* found it.
execute(cpu, instr) ==
    CASE instr.op \in AddrOps ->
           ExecAddr(cpu, instr.op,
                    effective_address(cpu.regs, instr.addr, AddrMode_to_trit(instr.mode)))
      [] instr.op = "Hlt" -> Ok([cpu EXCEPT !.state = "Halted"])
      [] instr.op = "Shl" ->
           Ok(SetSOmega(cpu, shift_left(cpu.regs.s, AsUsize(instr.count))))
      [] instr.op = "Shr" ->
           Ok(SetSOmega(cpu, shift_right(cpu.regs.s, AsUsize(instr.count))))
      [] instr.op = "Nop" -> Ok(cpu)
      [] instr.op = "Tst" ->
           Ok([cpu EXCEPT !.regs = set_omega(cpu.regs, Word18_sign(cpu.regs.s))])

\* The same with the cycle counted before the outcome of execute is looked at.
StepExecuted_counting(advanced, instr, done) ==
    IF ~done.ok THEN [cpu |-> [advanced EXCEPT !.cycles = @ + 1], res |-> done]
    ELSE [cpu |-> [done.val EXCEPT !.cycles = @ + 1, !.last_instr = Some(instr)],
          res |-> Ok(instr)]

\* The same without the record of the instruction.
StepExecuted_unrecorded(advanced, instr, done) ==
    IF ~done.ok THEN [cpu |-> advanced, res |-> done]
    ELSE [cpu |-> [done.val EXCEPT !.cycles = @ + 1], res |-> Ok(instr)]

\* step after execute: the bookkeeping of a successful step, or the error.
StepExecuted(advanced, instr, done) ==
    IF ~done.ok THEN [cpu |-> advanced, res |-> done]
    ELSE [cpu |-> [done.val EXCEPT !.cycles = @ + 1, !.last_instr = Some(instr)],
          res |-> Ok(instr)]

\* step after decode, with the program counter already advanced.
StepDecoded(advanced, instr) ==
    IF ~instr.ok THEN [cpu |-> advanced, res |-> instr]
    ELSE StepExecuted(advanced, instr.val, execute(advanced, instr.val))

\* The same with the program counter advanced before the fetch is looked at.
StepFetched_advancing(cpu, raw) ==
    IF ~raw.ok THEN [cpu |-> [cpu EXCEPT !.regs = advance_pc(cpu.regs)], res |-> raw]
    ELSE StepDecoded([cpu EXCEPT !.regs = advance_pc(cpu.regs)], decode(raw.val))

\* step after the fetch.
StepFetched(cpu, raw) ==
    IF ~raw.ok THEN [cpu |-> cpu, res |-> raw]
    ELSE StepDecoded([cpu EXCEPT !.regs = advance_pc(cpu.regs)], decode(raw.val))

\* step without its test of the run state.
step_unguarded(cpu) == StepFetched(cpu, read_ternary(cpu.mem, cpu.regs.c))

\* step: the engine after the call and the value the call returns.
step(cpu) ==
    IF cpu.state # "Running"
    THEN [cpu |-> cpu, res |-> Err(NotRunning(cpu.state))]
    ELSE StepFetched(cpu, read_ternary(cpu.mem, cpu.regs.c))

\* ------------------------------------------------------------------------
\* The engine as a state machine
\* ------------------------------------------------------------------------

VARIABLES
    regs,        \* Cpu.regs: the record of S, R, F, C and omega
    mem,         \* Cpu.mem.cells
    state,       \* Cpu.state
    cycles,      \* Cpu.cycles
    last_instr,  \* Cpu.last_instr
    call,        \* the run()/run_limited() call in progress and its locals
    ret,         \* the last completed call: what it returned and the engine it was called on
    loaded,      \* a program has been loaded since construction or reset()
    faulted,     \* a step() has returned a fatal error since construction or reset()
    query,       \* arguments of a call of a pure function of the kernel or codec
    answer       \* what that call returned

vars == <<regs, mem, state, cycles, last_instr, call, ret, loaded, faulted,
          query, answer>>

cpuVars == <<regs, mem, state, cycles, last_instr>>

\* The engine's fields as one Cpu value.
Cpu == [regs |-> regs, mem |-> mem, state |-> state, cycles |-> cycles,
        last_instr |-> last_instr]

SetCpu(cpu) ==
    /\ regs' = cpu.regs
    /\ mem' = cpu.mem
    /\ state' = cpu.state
    /\ cycles' = cpu.cycles
    /\ last_instr' = cpu.last_instr

NoCall == [fn |-> "none"]
\* ret while a run()/run_limited() call is in progress.
InCall == [op |-> "none"]
NoQuery == [fn |-> "none"]
Pending == [done |-> FALSE]
Done(v) == [done |-> TRUE, val |-> v]

\* A fatal error of step(): every error but NotRunning.
Fatal(res) == ~res.ok /\ res.err.kind # "NotRunning"

\* ---- inputs ----

T9(v) == Tryte9_from_i32(v)

\* Cells the environment fills with data before a program is loaded
\* (signed addresses 10 and 11, as the tests of execute.rs do), and the values.
DataIdx == {91, 92}
DataVals == {T9(-7), T9(0), T9(2)}

\* Instructions the sample programs are made of: every address-carrying
\* variant with a direct operand, an indexed operand and an operand outside
\* memory, the shifts with counts below, above and outside the word, HLT, NOP.
SampleInstrs ==
    {AddrInstr(op, T9(10), "Direct") : op \in AddrOps}
    \cup {AddrInstr(op, T9(11), "IndexAdd") : op \in AddrOps}
    \cup {AddrInstr(op, T9(100), "Direct") : op \in AddrOps}
    \cup {ShiftInstr("Shl", 1), ShiftInstr("Shl", -1), ShiftInstr("Shr", 1),
          ShiftInstr("Shr", 20)}
    \cup {PlainInstr("Hlt"), PlainInstr("Nop")}

\* A word whose opcode field (N P O = -6) is not assigned.
InvalidWord == [i \in 0..(Tryte9_WIDTH - 1) |->
                   CASE i = 8 -> "N" [] i = 7 -> "P" [] OTHER -> "O"]

SampleWords == {encode(i) : i \in SampleInstrs} \cup {InvalidWord}

PrefixWords == {encode(AddrInstr("Lda", T9(10), "Direct")),
                encode(AddrInstr("Ldf", T9(11), "Direct"))}

ProgAdd == <<encode(AddrInstr("Lda", T9(10), "Direct")),
             encode(AddrInstr("Add", T9(11), "Direct")),
             encode(PlainInstr("Hlt"))>>

ProgMul == <<encode(AddrInstr("Lda", T9(10), "Direct")),
             encode(AddrInstr("Mul", T9(11), "Direct")),
             encode(PlainInstr("Hlt"))>>

ProgJp == <<encode(AddrInstr("Lda", T9(10), "Direct")),
            encode(AddrInstr("Jp", T9(3), "Direct")),
            encode(PlainInstr("Nop")),
            encode(PlainInstr("Hlt"))>>

ProgNops == <<encode(PlainInstr("Nop")), encode(PlainInstr("Nop")),
              encode(PlainInstr("Nop")), encode(PlainInstr("Hlt"))>>

\* A program that never halts.
ProgLoop == <<encode(PlainInstr("Nop")),
              encode(AddrInstr("Jmp", T9(0), "Direct"))>>

\* One word more than fits between index 81 and the end of memory.
ProgTooLong == [i \in 1..(MEMORY_SIZE - 81 + 1) |-> encode(PlainInstr("Nop"))]

Programs ==
    {<<w>> : w \in SampleWords}
    \cup {<<p, w>> : p \in PrefixWords, w \in SampleWords}
    \cup {ProgAdd, ProgMul, ProgJp, ProgNops, ProgLoop, ProgTooLong}

\* Budgets passed to run_limited.
Budgets == {0, 2}

\* ---- initial state: Cpu::new() ----

Init ==
    /\ regs = Cpu_new.regs
    /\ mem = Cpu_new.mem
    /\ state = Cpu_new.state
    /\ cycles = Cpu_new.cycles
    /\ last_instr = Cpu_new.last_instr
    /\ call = NoCall
    /\ ret = [op |-> "new"]
    /\ loaded = FALSE
    /\ faulted = FALSE
    /\ query = NoQuery
    /\ answer = Pending

\* ---- actions ----

\* Cpu::reset
Reset ==
    /\ call = NoCall
    /\ regs' = Registers_reset(regs)
    /\ mem' = Memory_clear(mem)
    /\ state' = "Running"
    /\ cycles' = 0
    /\ last_instr' = None
    /\ ret' = [op |-> "reset", st |-> state, after_fault |-> faulted,
               dirty |-> (mem # Memory_new /\ regs # Registers_new)]
    /\ loaded' = FALSE
    /\ faulted' = FALSE
    /\ UNCHANGED <<call, query, answer>>

\* Memory::write on the engine's public memory, before a program is loaded
MemWrite ==
    /\ call = NoCall
    /\ ~loaded
    /\ \E addr \in DataIdx, value \in DataVals :
          /\ addr < MEMORY_SIZE
          /\ mem' = [mem EXCEPT ![addr] = value]
    /\ ret' = [op |-> "write", st |-> state]
    /\ UNCHANGED <<regs, state, cycles, last_instr, call, loaded, faulted,
                   query, answer>>

\* The effect of load_program: r is what Memory::load_program computed.
Loaded(r) ==
    /\ mem' = IF r.ok THEN r.val ELSE mem
    /\ loaded' = r.ok
    /\ ret' = [op |-> "load_program", res |-> IF r.ok THEN Ok(<<>>) ELSE r,
               st |-> state]

\* Cpu::load_program
LoadProgram ==
    /\ call = NoCall
    /\ ~loaded
    /\ \E program \in Programs :
          \E r \in Memory_load_program(mem, 81, program) : Loaded(r)
    /\ UNCHANGED <<regs, state, cycles, last_instr, call, faulted, query, answer>>

\* The effect of a step() the environment called: r is what step computed.
StepReturns(r) ==
    /\ SetCpu(r.cpu)
    /\ ret' = [op |-> "step", res |-> r.res, before |-> Cpu,
               after_fault |-> faulted]
    /\ faulted' = (faulted \/ Fatal(r.res))

\* ret when the run()/run_limited() call in progress returns res.
Returned(res) ==
    IF call.fn = "run_limited"
    THEN [op |-> call.fn, res |-> res, entry |-> call.entry,
          max_cycles |-> call.max_cycles]
    ELSE [op |-> call.fn, res |-> res, entry |-> call.entry]

\* `self.step()?` inside run() or run_limited(): an error of the step ends
\* the call with that error.
LoopStep(r) ==
    /\ SetCpu(r.cpu)
    /\ faulted' = (faulted \/ Fatal(r.res))
    /\ IF r.res.ok
       THEN UNCHANGED <<call, ret>>
       ELSE /\ call' = NoCall
            /\ ret' = Returned(r.res)

\* Cpu::step called by the environment
Step ==
    /\ call = NoCall
    /\ cycles < MaxCycles
    /\ StepReturns(step(Cpu))
    /\ UNCHANGED <<call, loaded, query, answer>>

\* Cpu::run is entered: start_cycles is taken
RunCall ==
    /\ call = NoCall
    /\ call' = [fn |-> "run", start_cycles |-> cycles, entry |-> Cpu]
    /\ ret' = InCall
    /\ UNCHANGED <<cpuVars, loaded, faulted, query, answer>>

\* one iteration of the loop of Cpu::run: `self.step()?`
RunIter ==
    /\ call.fn = "run"
    /\ state = "Running"
    /\ cycles < MaxCycles
    /\ LoopStep(step(Cpu))
    /\ UNCHANGED <<loaded, query, answer>>

\* the loop of Cpu::run ends, returning the cycle counter itself.
RunReturn_total ==
    /\ call.fn = "run"
    /\ state # "Running"
    /\ call' = NoCall
    /\ ret' = Returned(Ok(cycles))
    /\ UNCHANGED <<cpuVars, loaded, faulted, query, answer>>

\* the loop of Cpu::run ends: Ok(cycles - start_cycles)
RunReturn ==
    /\ call.fn = "run"
    /\ state # "Running"
    /\ call' = NoCall
    /\ ret' = Returned(Ok(cycles - call.start_cycles))
    /\ UNCHANGED <<cpuVars, loaded, faulted, query, answer>>

\* Cpu::run_limited is entered: start_cycles and limit are taken
RunLimitedCall ==
    /\ call = NoCall
    /\ \E max_cycles \in Budgets :
          /\ cycles + max_cycles <= MaxCycles
          /\ call' = [fn |-> "run_limited", start_cycles |-> cycles,
                      limit |-> cycles + max_cycles, max_cycles |-> max_cycles,
                      entry |-> Cpu]
    /\ ret' = InCall
    /\ UNCHANGED <<cpuVars, loaded, faulted, query, answer>>

\* the loop condition of run_limited letting one step too many through.
RunLimitedContinues_late == state = "Running" /\ cycles <= call.limit

\* the loop condition of Cpu::run_limited
RunLimitedContinues == state = "Running" /\ cycles < call.limit

\* one iteration of the loop of Cpu::run_limited
RunLimitedIter ==
    /\ call.fn = "run_limited"
    /\ RunLimitedContinues
    /\ LoopStep(step(Cpu))
    /\ UNCHANGED <<loaded, query, answer>>

\* the loop of Cpu::run_limited ends: Ok(cycles - start_cycles)
RunLimitedReturn ==
    /\ call.fn = "run_limited"
    /\ ~RunLimitedContinues
    /\ call' = NoCall
    /\ ret' = Returned(Ok(cycles - call.start_cycles))
    /\ UNCHANGED <<cpuVars, loaded, faulted, query, answer>>

Next ==
    \/ Reset
    \/ MemWrite
    \/ LoadProgram
    \/ Step
    \/ RunCall
    \/ RunIter
    \/ RunReturn
    \/ RunLimitedCall
    \/ RunLimitedIter
    \/ RunLimitedReturn

Spec == Init /\ [][Next]_vars

\* RunLimitedIter is enabled exactly when its guard holds: step() is total,
\* and an iteration either raises the cycle counter or ends the call.
RunLimitedIterEnabled == call.fn = "run_limited" /\ RunLimitedContinues

\* A run_limited() call in progress keeps executing: its loop takes its next
\* iteration, and returns once the loop condition fails.  The first conjunct
\* is WF_vars(RunLimitedIter) written out with the guard for ENABLED.
SpecLive ==
    /\ Spec
    /\ ([]<>(~RunLimitedIterEnabled) \/ []<><<RunLimitedIter>>_vars)
    /\ WF_vars(RunLimitedReturn)

\* ------------------------------------------------------------------------
\* Assembler (src/asm/assembler.rs)
\* ------------------------------------------------------------------------

\* A source is the sequence of its lines after the lexical steps of
\* process_line / process_instruction (trimming, removal of comments, the
\* split at ':' and at white space, upper-casing): a line is a record
\* [label, mnemonic, operand] of options.  An operand is the token after the
\* mnemonic without its mode suffix, either a decimal number
\* [num |-> TRUE, val, suffix] or a name [num |-> FALSE, name, suffix].
\* The assembler state is the record [current_addr, symbols, pending, output];
\* out_idx counts from 0 as in the source, output is a sequence from 1.

\* parse_operand_value: the assembler afterwards and the value returned.  A
\* name is never looked up here: it is pushed on `pending` and 0 is returned.
parse_operand_value(asm, operand, line_num) ==
    IF operand.num THEN [asm |-> asm, res |-> Ok(operand.val)]
    ELSE [asm |-> [asm EXCEPT !.pending =
                      Append(@, [out_idx |-> Len(asm.output),
                                 label |-> operand.name, line |-> line_num])],
          res |-> Ok(0)]

\* parse_instruction, with parse_address_operand (mode from the suffix, then
\* the value) written out.
parse_instruction(asm, mnemonic, operand, line_num) ==
    LET mode == IF ~operand.some THEN "Direct"
                ELSE CASE operand.val.suffix \in {",F+", ",F"} -> "IndexAdd"
                       [] operand.val.suffix = ",F-"           -> "IndexSub"
                       [] OTHER                                -> "Direct"
        parsed == IF operand.some
                  THEN parse_operand_value(asm, operand.val, line_num)
                  ELSE [asm |-> asm, res |-> Ok(0)]
        addr == Tryte9_from_i32(parsed.res.val)
        A(op) == Ok(AddrInstr(op, addr, mode))
    IN  [asm |-> parsed.asm,
         res |->
           CASE mnemonic = "ADD"               -> A("Add")
             [] mnemonic = "SUB"               -> A("Sub")
             [] mnemonic = "MUL"               -> A("Mul")
             [] mnemonic = "DIV"               -> A("Div")
             [] mnemonic \in {"ADDABS", "ADA"} -> A("AddAbs")
             [] mnemonic \in {"SUBABS", "SBA"} -> A("SubAbs")
             [] mnemonic \in {"LDA", "LD"}     -> A("Lda")
             [] mnemonic \in {"STA", "ST"}     -> A("Sta")
             [] mnemonic = "LDAU"              -> A("LdaUnsigned")
             [] mnemonic = "LDF"               -> A("Ldf")
             [] mnemonic = "STF"               -> A("Stf")
             [] mnemonic = "LDR"               -> A("Ldr")
             [] mnemonic = "STR"               -> A("Str")
             [] mnemonic \in {"XCHG", "XCH"}   -> A("Xchg")
             [] mnemonic \in {"JMP", "JP", "J"} -> A("Jmp")
             [] mnemonic \in {"JZ", "JE"}      -> A("Jz")
             [] mnemonic \in {"JPO", "JGT"}    -> A("Jp")
             [] mnemonic \in {"JNE", "JLT"}    -> A("Jn")
             [] mnemonic = "JOP"               -> A("Jop")
             [] mnemonic = "JON"               -> A("Jon")
             [] mnemonic \in {"HLT", "HALT"}   -> Ok(PlainInstr("Hlt"))
             [] mnemonic \in {"SHL", "ASL"}    -> Ok(ShiftInstr("Shl", Tryte9_to_i32(addr)))
             [] mnemonic \in {"SHR", "ASR"}    -> Ok(ShiftInstr("Shr", Tryte9_to_i32(addr)))
             [] mnemonic = "NOP"               -> Ok(PlainInstr("Nop"))
             [] mnemonic = "TST"               -> Ok(PlainInstr("Tst"))
             [] OTHER ->
                  Err([kind |-> "AssemblerError", what |-> "UnknownMnemonic",
                       line |-> line_num, mnemonic |-> mnemonic])]

\* emit: the word is pushed on the output and the current address advances.
emit(asm, instr) ==
    [asm EXCEPT !.output = Append(@, instr), !.current_addr = @ + 1]

\* process_instruction for a line that has a mnemonic.
process_instruction(asm, mnemonic, operand, line_num) ==
    CASE mnemonic \in {"ORG", "DAT", "DATA"} ->
           IF ~operand.some
           THEN [asm |-> asm,
                 res |-> Err([kind |-> "AssemblerError", what |-> "SyntaxError",
                              line |-> line_num])]
           ELSE LET p == parse_operand_value(asm, operand.val, line_num)
                IN  [asm |-> IF mnemonic = "ORG"
                             THEN [p.asm EXCEPT !.current_addr = p.res.val]
                             ELSE emit(p.asm, Tryte9_from_i32(p.res.val)),
                     res |-> Ok(<<>>)]
      [] OTHER ->
           LET p == parse_instruction(asm, mnemonic, operand, line_num)
           IN  IF ~p.res.ok THEN p
               ELSE [asm |-> emit(p.asm, encode(p.res.val)), res |-> Ok(<<>>)]

\* process_line: a label is entered in the symbol table at the current
\* address, then the rest of the line is processed.
process_line(asm, line, line_num) ==
    LET labelled ==
          IF line.label.some /\ line.label.val # ""
          THEN [asm EXCEPT !.symbols =
                   [l \in DOMAIN asm.symbols \cup {line.label.val} |->
                       IF l = line.label.val THEN asm.current_addr
                       ELSE asm.symbols[l]]]
          ELSE asm
    IN  IF line.mnemonic.some
        THEN process_instruction(labelled, line.mnemonic.val, line.operand, line_num)
        ELSE [asm |-> labelled, res |-> Ok(<<>>)]

\* Pass 1 of assemble from line k on: the first error ends it.
RECURSIVE Pass1(_, _, _)
Pass1(asm, source, k) ==
    IF k > Len(source) THEN [asm |-> asm, res |-> Ok(<<>>)]
    ELSE LET p == process_line(asm, source[k], k)
         IN  IF ~p.res.ok THEN p ELSE Pass1(p.asm, source, k + 1)

\* resolve_references from the k-th pending reference on: the output word at
\* out_idx is replaced by Tryte9::from_i32 of the address of the label.
RECURSIVE resolve_references(_, _)
resolve_references(asm, k) ==
    IF k > Len(asm.pending) THEN [asm |-> asm, res |-> Ok(<<>>)]
    ELSE LET ref == asm.pending[k]
         IN  IF ref.label \notin DOMAIN asm.symbols
             THEN [asm |-> asm,
                   res |-> Err([kind |-> "AssemblerError", what |-> "UndefinedLabel",
                                line |-> ref.line, label |-> ref.label])]
             ELSE resolve_references(
                    IF ref.out_idx < Len(asm.output)
                    THEN [asm EXCEPT !.output[ref.out_idx + 1] =
                             Tryte9_from_i32(asm.symbols[ref.label])]
                    ELSE asm,
                    k + 1)

\* assemble on a new Assembler: Ok(output) or the first error.
assemble(source) ==
    LET pass1 == Pass1([current_addr |-> 0, symbols |-> [l \in {} |-> 0],
                        pending |-> << >>, output |-> << >>], source, 1)
        pass2 == resolve_references(pass1.asm, 1)
    IN  IF ~pass1.res.ok THEN pass1.res
        ELSE IF ~pass2.res.ok THEN pass2.res
        ELSE Ok(pass2.asm.output)

\* ------------------------------------------------------------------------
\* The pure functions of the kernel and the codec, called on sampled inputs
\* ------------------------------------------------------------------------

\* Values of the 18-trit words the kernel is called on: those around zero
\* and those at either end of the range (where add carries out).
Word18Vals ==
    (-MaxVal..MaxVal)
    \cup {Word18_MAX - k : k \in 0..MaxVal}
    \cup {Word18_MIN + k : k \in 0..MaxVal}

\* Values multiply is called on: those around zero, the ends of the 9-trit
\* range and two whose product needs the high word.
MulVals == (-MaxVal..MaxVal) \cup {Tryte9_MIN, Tryte9_MAX, -30000 - MaxVal, 30000 + MaxVal}

\* Every instruction the 9-trit layout has a place for: operand and count in
\* the 5-trit range.
AllInstrs ==
    {AddrInstr(op, T9(v), m) : op \in AddrOps, v \in Tryte5_MIN..Tryte5_MAX, m \in AddrMode}
    \cup {ShiftInstr(op, v) : op \in ShiftOps, v \in Tryte5_MIN..Tryte5_MAX}
    \cup {PlainInstr(op) : op \in PlainOps}

\* Shift counts as usize: every count up to just past the width, and the
\* count a negative SHL/SHR operand is cast to.
ShiftCounts == (0..(Word18_WIDTH + 1)) \cup {AsUsize(-1)}

\* A memory in which every cell holds a different word: its own signed address.
SampleCells == [i \in 0..(MEMORY_SIZE - 1) |-> T9(i - 81)]

\* Signed addresses the memory is accessed at: around zero, on either side
\* of both ends of the addressable range, and the ends of the 9-trit range.
AddrVals ==
    (-MaxVal..MaxVal)
    \cup {-81 - k : k \in 0..MaxVal} \cup {-81 + k : k \in 0..MaxVal}
    \cup {80 - k : k \in 0..MaxVal} \cup {80 + k : k \in 0..MaxVal}
    \cup {Tryte9_MIN, Tryte9_MAX}

\* Operand addresses and contents of F: around zero and at both ends of the
\* 5-trit range.
OperandVals ==
    (-MaxVal..MaxVal)
    \cup {Tryte5_MIN, Tryte5_MIN + 1, Tryte5_MAX - 1, Tryte5_MAX}

\* Start indices load_program is called with: the start of memory, the
\* engine's load address, and indices on either side of the end of memory.
StartVals == {0, 81} \cup {MEMORY_SIZE - k : k \in 0..3} \cup {MEMORY_SIZE + k : k \in 1..MaxVal}

\* Programs of 0 to 3 words, none of them a word of SampleCells.
SamplePrograms == {<<>>, <<T9(100)>>, <<T9(100), T9(101)>>, <<T9(100), T9(101), T9(102)>>}

\* Engines about to step: S at and next to both ends of the 18-trit range
\* and near zero, C inside, at both ends of and outside the addressable
\* range, F zero and at both ends of the 5-trit range, the word C points at
\* (when C is addressable) an arithmetic instruction, XCHG or LDF on the
\* cell at address 10, an indexed jump with operand 121 or -121, a shift,
\* NOP, HLT or an unassigned code, and in the cell at address 10 the largest
\* and smallest 9-trit values, 1 or 0.
StepCpus ==
    {[Cpu_new EXCEPT
        !.regs.s = Word18_from_i64(sv),
        !.regs.c = T9(cv),
        !.regs.f = Tryte5_from_i32(fv),
        !.mem = [i \in 0..(MEMORY_SIZE - 1) |->
                    IF i = cv + 81 THEN w ELSE IF i = 10 + 81 THEN d ELSE Tryte9_zero]] :
        sv \in {Word18_MAX, Word18_MAX - 1, Word18_MIN, Word18_MIN + 1, 0, 2},
        cv \in {0, 80, 81, -81, -82, 100},
        fv \in {0, Tryte5_MAX, Tryte5_MIN},
        w \in {encode(AddrInstr(op, T9(10), "Direct")) :
                  op \in {"Add", "Sub", "AddAbs", "SubAbs", "Div", "Xchg", "Ldf"}}
              \cup {encode(AddrInstr("Jmp", T9(a), m)) :
                       a \in {Tryte5_MAX, Tryte5_MIN}, m \in {"IndexAdd", "IndexSub"}}
              \cup {encode(ShiftInstr("Shl", n)) : n \in {1, 17, 18, -1, Tryte5_MIN}}
              \cup {encode(ShiftInstr("Shr", n)) : n \in {1, 18, -1, Tryte5_MIN}}
              \cup {encode(PlainInstr("Nop")), encode(PlainInstr("Hlt")), InvalidWord},
        d \in {T9(Tryte9_MAX), T9(Tryte9_MIN), T9(1), T9(0)}}

\* Values converted to 18-trit words and back: the sampled word values, and
\* on either side of zero the largest value of each shorter width and the
\* value after it, where the conversion carries into the next trit.
ConversionVals ==
    Word18Vals \cup MulVals
    \cup {(3^k - 1) \div 2 : k \in 1..(Word18_WIDTH - 1)}
    \cup {(3^k + 1) \div 2 : k \in 1..(Word18_WIDTH - 1)}
    \cup {-((3^k - 1) \div 2) : k \in 1..(Word18_WIDTH - 1)}
    \cup {-((3^k + 1) \div 2) : k \in 1..(Word18_WIDTH - 1)}

\* Sources the assembler is called on: every sequence of up to three lines
\* drawn from label definitions, instructions with numeric operands,
\* instructions whose operand is a label (direct and indexed), a labelled
\* instruction and an ORG directive; and the source of
\* tests::test_assemble_with_labels.
AsmSources ==
    LET Lbl(n)    == [label |-> Some(n), mnemonic |-> None, operand |-> None]
        Ins(m, o) == [label |-> None, mnemonic |-> Some(m), operand |-> o]
        Num(v)    == Some([num |-> TRUE, val |-> v, suffix |-> ""])
        Ref(n, s) == Some([num |-> FALSE, name |-> n, suffix |-> s])
        Lines == {Lbl("START"), Lbl("END"),
                  Ins("LDA", Num(10)), Ins("NOP", None),
                  Ins("JMP", Ref("END", "")), Ins("JZ", Ref("START", "")),
                  Ins("ADD", Ref("START", ",F+")),
                  [label |-> Some("END"), mnemonic |-> Some("HLT"), operand |-> None],
                  Ins("ORG", Num(50))}
    IN  {<< >>}
        \cup {<<a>> : a \in Lines}
        \cup {<<a, b>> : a \in Lines, b \in Lines}
        \cup {<<a, b, c>> : a \in Lines, b \in Lines, c \in Lines}
        \cup {<<Lbl("START"), Ins("LDA", Num(10)), Ins("JMP", Ref("END", "")),
                Ins("NOP", None), Lbl("END"), Ins("HLT", None)>>}

Queries ==
    {[fn |-> "full_add", a |-> x, b |-> y, c |-> z] : x \in Trit, y \in Trit, z \in Trit}
    \cup {[fn |-> "add", a |-> Word18_from_i64(x), b |-> Word18_from_i64(y)] :
             x \in Word18Vals, y \in Word18Vals}
    \cup {[fn |-> "add_neg", a |-> Word18_from_i64(x)] : x \in Word18Vals \cup MulVals}
    \cup {[fn |-> "multiply", a |-> Word18_from_i64(x), b |-> Word18_from_i64(y)] :
             x \in MulVals, y \in MulVals}
    \cup {[fn |-> "encode_decode", instr |-> i] : i \in AllInstrs}
    \cup {[fn |-> "decode", word |-> w] : w \in Tryte9}
    \cup {[fn |-> "decode_encode", word |-> w] : w \in Tryte9}
    \cup {[fn |-> "assemble", source |-> s] : s \in AsmSources}
    \cup {[fn |-> "round_trip", width |-> Tryte9_WIDTH, v |-> x] :
             x \in Tryte9_MIN..Tryte9_MAX}
    \cup {[fn |-> "round_trip", width |-> Tryte5_WIDTH, v |-> x] :
             x \in Tryte5_MIN..Tryte5_MAX}
    \cup {[fn |-> "round_trip", width |-> Word18_WIDTH, v |-> x] : x \in ConversionVals}
    \cup {[fn |-> "step", cpu |-> c] : c \in StepCpus}
    \cup {[fn |-> f, a |-> Word18_from_i64(x), n |-> k] :
             f \in {"shift_left", "shift_right"}, x \in Word18Vals, k \in ShiftCounts}
    \cup {[fn |-> "read_ternary", cells |-> SampleCells, addr |-> T9(a)] : a \in AddrVals}
    \cup {[fn |-> "write_ternary", cells |-> SampleCells, addr |-> T9(a), value |-> v] :
             a \in AddrVals, v \in DataVals}
    \cup {[fn |-> "effective_address", f |-> Tryte5_from_i32(fv), addr |-> T9(a),
           mode |-> m] : fv \in OperandVals, a \in OperandVals, m \in Trit}
    \cup {[fn |-> "load_program", cells |-> SampleCells, start |-> s, program |-> p] :
             s \in StartVals, p \in SamplePrograms}

InitKernel ==
    /\ regs = Cpu_new.regs
    /\ mem = Cpu_new.mem
    /\ state = Cpu_new.state
    /\ cycles = Cpu_new.cycles
    /\ last_instr = Cpu_new.last_instr
    /\ call = NoCall
    /\ ret = [op |-> "new"]
    /\ loaded = FALSE
    /\ faulted = FALSE
    /\ query \in Queries
    /\ answer = Pending

Unanswered(fn) == query.fn = fn /\ ~answer.done

engineVars == <<regs, mem, state, cycles, last_instr, call, ret, loaded, faulted>>

\* Trit::full_add
CallFullAdd ==
    /\ Unanswered("full_add")
    /\ answer' = Done(full_add(query.a, query.b, query.c))
    /\ UNCHANGED <<engineVars, query>>

\* arith::add
CallAdd ==
    /\ Unanswered("add")
    /\ answer' = Done(add(query.a, query.b))
    /\ UNCHANGED <<engineVars, query>>

\* arith::add on a word and its Word18::neg
CallAddNeg ==
    /\ Unanswered("add_neg")
    /\ answer' = Done(add(query.a, Word18_neg(query.a)))
    /\ UNCHANGED <<engineVars, query>>

\* arith::multiply
CallMultiply ==
    /\ Unanswered("multiply")
    /\ answer' = Done(multiply(query.a, query.b))
    /\ UNCHANGED <<engineVars, query>>

\* decode::encode followed by decode::decode of the word it returned
CallEncodeDecode ==
    /\ Unanswered("encode_decode")
    /\ answer' = Done(decode(encode(query.instr)))
    /\ UNCHANGED <<engineVars, query>>

\* decode::decode
CallDecode ==
    /\ Unanswered("decode")
    /\ answer' = Done(decode(query.word))
    /\ UNCHANGED <<engineVars, query>>

\* decode::encode of what decode::decode returned, or decode's error
CallDecodeEncode ==
    /\ Unanswered("decode_encode")
    /\ answer' = Done(IF decode(query.word).ok
                      THEN Ok(encode(decode(query.word).val))
                      ELSE decode(query.word))
    /\ UNCHANGED <<engineVars, query>>

\* Cpu::step: the engine after the call and what the call returned
CallStep ==
    /\ Unanswered("step")
    /\ answer' = Done(step(query.cpu))
    /\ UNCHANGED <<engineVars, query>>

\* from_i32 / from_i64 of one of the three widths, then to_i32 / to_i64 of
\* the word it returned
CallRoundTrip ==
    /\ Unanswered("round_trip")
    /\ answer' = Done(CASE query.width = Tryte9_WIDTH ->
                             Tryte9_to_i32(Tryte9_from_i32(query.v))
                         [] query.width = Tryte5_WIDTH ->
                             Tryte5_to_i32(Tryte5_from_i32(query.v))
                         [] query.width = Word18_WIDTH ->
                             Word18_to_i64(Word18_from_i64(query.v)))
    /\ UNCHANGED <<engineVars, query>>

\* asm::assemble
CallAssemble ==
    /\ Unanswered("assemble")
    /\ answer' = Done(assemble(query.source))
    /\ UNCHANGED <<engineVars, query>>

\* arith::shift_left
CallShiftLeft ==
    /\ Unanswered("shift_left")
    /\ answer' = Done(shift_left(query.a, query.n))
    /\ UNCHANGED <<engineVars, query>>

\* arith::shift_right
CallShiftRight ==
    /\ Unanswered("shift_right")
    /\ answer' = Done(shift_right(query.a, query.n))
    /\ UNCHANGED <<engineVars, query>>

\* Memory::read_ternary: what it returns and the cells afterwards
CallReadTernary ==
    /\ Unanswered("read_ternary")
    /\ answer' = Done([res |-> read_ternary(query.cells, query.addr),
                       cells |-> query.cells])
    /\ UNCHANGED <<engineVars, query>>

\* What write_ternary returns and the cells afterwards; r is Ok(new cells) or
\* the error.
Written(cells, r) ==
    [res |-> IF r.ok THEN Ok(<<>>) ELSE r, cells |-> IF r.ok THEN r.val ELSE cells]

\* Memory::write_ternary
CallWriteTernary ==
    /\ Unanswered("write_ternary")
    /\ answer' = Done(Written(query.cells,
                              write_ternary(query.cells, query.addr, query.value)))
    /\ UNCHANGED <<engineVars, query>>

\* Registers::effective_address on a register file whose F is query.f
CallEffectiveAddress ==
    /\ Unanswered("effective_address")
    /\ answer' = Done(effective_address([Registers_new EXCEPT !.f = query.f],
                                        query.addr, query.mode))
    /\ UNCHANGED <<engineVars, query>>

\* Memory::load_program: one of its outcomes and the cells afterwards
CallLoadProgram ==
    /\ Unanswered("load_program")
    /\ \E r \in Memory_load_program(query.cells, query.start, query.program) :
          answer' = Done(Written(query.cells, r))
    /\ UNCHANGED <<engineVars, query>>

NextKernel ==
    \/ CallFullAdd
    \/ CallAdd
    \/ CallAddNeg
    \/ CallMultiply
    \/ CallEncodeDecode
    \/ CallDecode
    \/ CallDecodeEncode
    \/ CallAssemble
    \/ CallRoundTrip
    \/ CallStep
    \/ CallShiftLeft
    \/ CallShiftRight
    \/ CallReadTernary
    \/ CallWriteTernary
    \/ CallEffectiveAddress
    \/ CallLoadProgram

SpecKernel == InitKernel /\ [][NextKernel]_vars


\* ------------------------------------------------------------------------
\* Properties
\* ------------------------------------------------------------------------

\* The integer a word of trits denotes: the sum of trit * 3^position.
TritValue(t) == CASE t = "N" -> -1 [] t = "O" -> 0 [] t = "P" -> 1

RECURSIVE ValueFrom(_, _)
ValueFrom(w, i) ==
    IF i \notin DOMAIN w THEN 0 ELSE TritValue(w[i]) + 3 * ValueFrom(w, i + 1)

Value(w) == ValueFrom(w, 0)

\* A step() the environment called has just returned.
StepReturned == call = NoCall /\ ret.op = "step"

\* C1: whenever step() returns a fatal error (an address out of range from
\* the fetch or from an operand access, an invalid opcode, a division by
\* zero), the engine's run state is Error when the call returns.
C1_FatalStepSetsError ==
    (StepReturned /\ Fatal(ret.res)) => state = "Error"

\* C2: after a step() has returned a fatal error, every later step() made
\* without a reset() in between returns NotRunning and changes no register,
\* no memory cell and not the cycle counter.
C2_StepAfterFaultIsNoOp ==
    (StepReturned /\ ret.after_fault) =>
        /\ ~ret.res.ok
        /\ ret.res.err.kind = "NotRunning"
        /\ regs = ret.before.regs
        /\ mem = ret.before.mem
        /\ cycles = ret.before.cycles

\* C3: once the state is Halted, every step() returns NotRunning(Halted) and
\* leaves the registers, the 162 memory cells, the cycle counter and the
\* last-instruction record unchanged; run() and run_limited() perform no
\* step; the state stays Halted through every call but reset().
C3_HaltedIsStable ==
    /\ (StepReturned /\ ret.before.state = "Halted") =>
          /\ ret.res = Err(NotRunning("Halted"))
          /\ Cpu = ret.before
    /\ (call # NoCall /\ call.entry.state = "Halted") => Cpu = call.entry
    /\ (call = NoCall /\ ret.op \in {"run", "run_limited"}
            /\ ret.entry.state = "Halted") =>
          /\ ret.res = Ok(0)
          /\ Cpu = ret.entry
    /\ (ret.op \in {"write", "load_program"} /\ ret.st = "Halted") =>
          state = "Halted"

\* A step() on a halted engine that has executed an instruction and holds
\* non-zero data has returned.
C3_Witness ==
    /\ StepReturned
    /\ ret.before.state = "Halted"
    /\ ret.before.cycles > 0
    /\ ~Word18_is_zero(ret.before.regs.s)

\* A call of the pure function fn has returned.
Answered(fn) == query.fn = fn /\ answer.done

\* C4: for all 18-trit words a and b, add(a, b) returns (sum, carry) with
\* value(sum) + 3^18 * value(carry) = value(a) + value(b).
C4_AddIsExact ==
    Answered("add") =>
        Value(answer.val[1]) + (3^Word18_WIDTH) * TritValue(answer.val[2])
            = Value(query.a) + Value(query.b)

\* C5: for all 27 combinations of trits (a, b, c_in), full_add(a, b, c_in)
\* returns (sum, carry_out) with sum + 3 * carry_out = a + b + c_in.
C5_FullAddIsExact ==
    Answered("full_add") =>
        TritValue(answer.val[1]) + 3 * TritValue(answer.val[2])
            = TritValue(query.a) + TritValue(query.b) + TritValue(query.c)

\* C6: for all 18-trit words a and b, multiply(a, b) returns (low, high) with
\* value(high) * 3^18 + value(low) = value(a) * value(b) over the integers.
\* (The products of the sampled values need a high word within -2..2.)
C6_MultiplyIsExact ==
    Answered("multiply") =>
        /\ Value(answer.val[2]) \in -2..2
        /\ Value(answer.val[2]) * (3^Word18_WIDTH) + Value(answer.val[1])
              = Value(query.a) * Value(query.b)

\* run() has returned after being called on a fresh engine whose memory held
\* prog from address 0, any data in the cells at signed addresses 10 and 11,
\* and zero elsewhere.
RanFresh(prog) ==
    /\ call = NoCall
    /\ ret.op = "run"
    /\ ret.entry.regs = Registers_new
    /\ ret.entry.state = "Running"
    /\ ret.entry.cycles = 0
    /\ ret.entry.last_instr = None
    /\ \A i \in DOMAIN ret.entry.mem :
          i \notin {81 + 10, 81 + 11} =>
              ret.entry.mem[i] = IF i - 81 + 1 \in DOMAIN prog
                                 THEN prog[i - 81 + 1] ELSE Tryte9_zero

\* The data that run() found at signed address a.
EntryCell(a) == Value(ret.entry.mem[81 + a])

\* C7: for all 9-trit values u and v in the cells at signed addresses 10 and
\* 11 of a fresh engine, running [LDA 10/Direct, ADD 11/Direct, HLT] loaded at
\* address 0 ends with state Halted after 3 cycles and with S = u + v.
C7_AddProgram ==
    RanFresh(ProgAdd) =>
        /\ ret.res = Ok(3)
        /\ state = "Halted"
        /\ cycles = 3
        /\ Value(regs.s) = EntryCell(10) + EntryCell(11)

\* C8: for all 9-trit values u and v in the cells at signed addresses 10 and
\* 11 of a fresh engine, running [LDA 10, MUL 11, HLT] ends Halted with S the
\* high word and R the low word of the product: S = 0 and R = u * v.
C8_MulProgram ==
    RanFresh(ProgMul) =>
        /\ state = "Halted"
        /\ Value(regs.s) = 0
        /\ Value(regs.r) = EntryCell(10) * EntryCell(11)

\* C9: for every Instruction value of every variant (address-carrying with
\* operand in -121..121 and any of the three modes; SHL/SHR with count in
\* -121..121; HLT, NOP and TST), decode(encode(i)) returns Ok(i).
C9_EncodeDecodeRoundTrip ==
    Answered("encode_decode") => answer.val = Ok(query.instr)

\* C10: every step() that successfully executes a non-jump instruction
\* fetched from C = p leaves the program counter at exactly p + 1.
C10_NonJumpAdvancesByOne ==
    (StepReturned /\ ret.res.ok /\ ret.res.val.op \notin JumpOps) =>
        Value(regs.c) = Value(ret.before.regs.c) + 1

\* A step() has executed a non-jump instruction fetched from an address other
\* than 0 and has changed S.
C10_Witness ==
    /\ StepReturned
    /\ ret.res.ok
    /\ ret.res.val.op \notin JumpOps
    /\ Value(ret.before.regs.c) # 0
    /\ regs.s # ret.before.regs.s

\* The sign of an integer as a trit.
SignOf(v) == IF v > 0 THEN "P" ELSE IF v < 0 THEN "N" ELSE "O"

\* The instructions that set omega.
OmegaOps == {"Add", "Sub", "Mul", "Div", "AddAbs", "SubAbs", "Lda", "LdaUnsigned",
             "Xchg", "Shl", "Shr", "Tst"}

\* C11: after every successful step that executes ADD, SUB, MUL, DIV, ADDABS,
\* SUBABS, LDA, LDAU, XCHG, SHL, SHR or TST, omega equals the sign of the new
\* value of S (O when S = 0).  The last successful step is the one
\* last_instr records, whether step() was called directly or by run().
C11_OmegaIsSignOfS ==
    (last_instr.some /\ last_instr.val.op \in OmegaOps) =>
        regs.omega = SignOf(Value(regs.s))

\* A step has executed an omega-setting instruction that left S negative
\* with a lowest trit that is not N.
C11_Witness ==
    /\ StepReturned
    /\ ret.res.ok
    /\ ret.res.val.op \in OmegaOps
    /\ regs.omega = "N"
    /\ regs.s[0] # "N"

\* What the step() that has just returned fetched and decoded.
StepWord == read_ternary(ret.before.mem, ret.before.regs.c)
StepInstr == decode(StepWord.val)

\* The effective address of an instruction carrying (addr, mode), as an
\* integer, for the index register f.
EffOf(instr, f) ==
    Value(instr.addr) + (CASE instr.mode = "IndexAdd" -> Value(f)
                           [] instr.mode = "IndexSub" -> -Value(f)
                           [] instr.mode = "Direct"   -> 0)

\* C12: for every instruction that carries (addr, mode) - arithmetic,
\* transfer and jump instructions alike, including JMP and taken conditional
\* jumps - if its effective address is outside -81..80 then the step that
\* executes it returns MemoryError::AddressOutOfRange.
C12_OutOfRangeOperandFails ==
    (/\ StepReturned
     /\ ret.before.state = "Running"
     /\ StepWord.ok
     /\ StepInstr.ok
     /\ StepInstr.val.op \in AddrOps
     /\ (StepInstr.val.op \in JumpOps => JumpTaken(ret.before, StepInstr.val.op))
     /\ EffOf(StepInstr.val, ret.before.regs.f) \notin -81..80)
    => ret.res = Err(AddressOutOfRange(EffOf(StepInstr.val, ret.before.regs.f)))

\* x / d truncated toward zero, for d > 0.
TruncToZero(x, d) == IF x >= 0 THEN x \div d ELSE -((-x) \div d)

\* C13 (as stated): for every 18-trit word x and every k with 0 <= k < 18,
\* shift_right(x, k) has the value of value(x) / 3^k truncated toward zero.
C13_ShiftRightTruncates ==
    (Answered("shift_right") /\ query.n < Word18_WIDTH) =>
        Value(answer.val) = TruncToZero(Value(query.a), 3^query.n)

\* C13 (amended): for every 18-trit word x and every k with 0 <= k < 18,
\* shift_right(x, k) has the value of value(x) / 3^k rounded to the nearest
\* integer: value(x) differs from 3^k * value(result) by at most (3^k - 1) / 2,
\* the value of the k trits dropped.
C13_ShiftRightRounds ==
    (Answered("shift_right") /\ query.n < Word18_WIDTH) =>
        LET diff == Value(query.a) - (3^query.n) * Value(answer.val)
        IN  /\ 2 * diff < 3^query.n
            /\ 2 * (-diff) < 3^query.n

\* shift_right has dropped trits worth more than half of 3^k in magnitude
\* from a negative word, where rounding and truncation differ.
C13_Witness ==
    /\ Answered("shift_right")
    /\ query.n \in 1..(Word18_WIDTH - 1)
    /\ Value(query.a) < 0
    /\ Value(answer.val) # TruncToZero(Value(query.a), 3^query.n)

\* C14: for every 18-trit word x and every k >= 0, shift_left(x, k) is the low
\* 18 trits of x * 3^k: trits 0..k-1 are zero and trit i + k is trit i of x
\* for i + k < 18; it is the zero word when k >= 18.
C14_ShiftLeftIsTimesPower ==
    Answered("shift_left") =>
        /\ DOMAIN answer.val = 0..(Word18_WIDTH - 1)
        /\ \A j \in 0..(Word18_WIDTH - 1) :
              answer.val[j] = IF j < query.n THEN "O" ELSE query.a[j - query.n]
        /\ query.n >= Word18_WIDTH => Value(answer.val) = 0
        /\ (query.n < Word18_WIDTH
               /\ \A i \in 0..(Word18_WIDTH - 1) : i + query.n >= Word18_WIDTH => query.a[i] = "O")
             => Value(answer.val) = Value(query.a) * 3^query.n

\* shift_left by a count within the word has discarded a non-zero trit and
\* kept another.
C14_Witness ==
    /\ Answered("shift_left")
    /\ query.n \in 1..(Word18_WIDTH - 1)
    /\ query.a[Word18_WIDTH - 1] # "O"
    /\ Value(answer.val) # 0

\* C15: read_ternary(a) and write_ternary(a, v) succeed exactly when the
\* signed value of the address a is in -81..80, and then access the cell at
\* index a + 81; for every other address they return AddressOutOfRange(a) and
\* leave all 162 cells unchanged.
C15_TernaryAccessRange ==
    /\ Answered("read_ternary") =>
          /\ answer.val.cells = query.cells
          /\ answer.val.res =
                IF Value(query.addr) \in -81..80
                THEN Ok(query.cells[Value(query.addr) + 81])
                ELSE Err(AddressOutOfRange(Value(query.addr)))
    /\ Answered("write_ternary") =>
          IF Value(query.addr) \in -81..80
          THEN /\ answer.val.res = Ok(<<>>)
               /\ answer.val.cells =
                     [i \in 0..(MEMORY_SIZE - 1) |->
                         IF i = Value(query.addr) + 81 THEN query.value
                         ELSE query.cells[i]]
          ELSE /\ answer.val.res = Err(AddressOutOfRange(Value(query.addr)))
               /\ answer.val.cells = query.cells

\* write_ternary has been refused for an address just below the range.
C15_Witness ==
    /\ Answered("write_ternary")
    /\ Value(query.addr) = -82
    /\ ~answer.val.res.ok

\* C16: for every operand address addr in -121..121 and every F in -121..121,
\* effective_address(addr, mode) equals addr + F for IndexAdd (trit P),
\* addr - F for IndexSub (trit N) and addr for Direct (trit O).
C16_EffectiveAddress ==
    Answered("effective_address") =>
        Value(answer.val) =
            CASE query.mode = "P" -> Value(query.addr) + Value(query.f)
              [] query.mode = "N" -> Value(query.addr) - Value(query.f)
              [] query.mode = "O" -> Value(query.addr)

\* effective_address has been computed in IndexAdd mode with the largest
\* operand and the largest F.
C16_Witness ==
    /\ Answered("effective_address")
    /\ query.mode = "P"
    /\ Value(query.addr) = Tryte5_MAX
    /\ Value(query.f) = Tryte5_MAX
    /\ Value(answer.val) = 2 * Tryte5_MAX

\* res is the error ProgramTooLarge.
IsProgramTooLarge(res) ==
    /\ ~res.ok
    /\ "err" \in DOMAIN res
    /\ res.err.what = "ProgramTooLarge"

\* C17: for every start index (including start > 162) and every program,
\* load_program(start, program) with start + len(program) > 162 returns
\* ProgramTooLarge and leaves every cell unchanged; with start + len <= 162
\* it overwrites exactly cells start .. start+len-1 with the program words in
\* order and changes no other cell.
C17_LoadProgram ==
    Answered("load_program") =>
        IF query.start + Len(query.program) > MEMORY_SIZE
        THEN /\ IsProgramTooLarge(answer.val.res)
             /\ answer.val.cells = query.cells
        ELSE /\ answer.val.res = Ok(<<>>)
             /\ answer.val.cells =
                   [i \in 0..(MEMORY_SIZE - 1) |->
                       IF i \in query.start..(query.start + Len(query.program) - 1)
                       THEN query.program[i - query.start + 1]
                       ELSE query.cells[i]]

\* The safety part of C18: a run_limited(max) call never performs more than
\* max successful steps; when it returns Ok(n), n is the number of steps it
\* performed; if the engine is still Running then n = max, and if n < max the
\* engine is no longer Running.
RunLimitedWithinBudget ==
    /\ call.fn = "run_limited" =>
          cycles - call.start_cycles \in 0..call.max_cycles
    /\ (call = NoCall /\ ret.op = "run_limited") =>
          /\ cycles - ret.entry.cycles \in 0..ret.max_cycles
          /\ ret.res.ok =>
                /\ ret.res.val = cycles - ret.entry.cycles
                /\ state = "Running" => ret.res.val = ret.max_cycles
                /\ ret.res.val < ret.max_cycles => state # "Running"
          /\ ~ret.res.ok => Fatal(ret.res)

C19_ResetIsFresh ==
    ret.op = "reset" =>
        /\ DOMAIN mem = 0..(MEMORY_SIZE - 1)
        /\ \A i \in DOMAIN mem : mem[i] = [k \in 0..8 |-> "O"]
        /\ regs.s = [k \in 0..17 |-> "O"]
        /\ regs.r = [k \in 0..17 |-> "O"]
        /\ regs.f = [k \in 0..4 |-> "O"]
        /\ regs.c = [k \in 0..8 |-> "O"]
        /\ regs.omega = "O"
        /\ state = "Running"
        /\ cycles = 0
        /\ last_instr = None
        /\ Cpu = Cpu_new

\* reset() has been called on a halted engine, after a failed step, with
\* memory and registers that were not those of a fresh engine.
C19_Witness ==
    /\ ret.op = "reset"
    /\ ret.st = "Halted"
    /\ ret.after_fault
    /\ ret.dirty

\* The DIV that the step() that has just returned executed: its dividend, its
\* divisor (the cell at the effective address) and the new S and R.
DivExecuted == StepReturned /\ ret.res.ok /\ ret.res.val.op = "Div"
Dividend == Value(ret.before.regs.s)
Divisor == Value(ret.before.mem[EffOf(ret.res.val, ret.before.regs.f) + 81])

\* C20: for a DIV executed with dividend S and a non-zero divisor d (the cell
\* at the effective address), afterwards S = q and R = r where q is S / d
\* truncated toward zero and r = S_old - q * d, so that r is zero or has the
\* sign of the dividend and |r| < |d|.
C20_DivTruncates ==
    DivExecuted =>
        /\ Divisor # 0
        /\ Value(regs.s) = IF Divisor > 0 THEN TruncToZero(Dividend, Divisor)
                           ELSE -TruncToZero(Dividend, -Divisor)
        /\ Value(regs.r) = Dividend - Value(regs.s) * Divisor
        /\ Value(regs.r) = 0 \/ SignOf(Value(regs.r)) = SignOf(Dividend)
        /\ IF Value(regs.r) < 0 THEN -Value(regs.r) < (IF Divisor < 0 THEN -Divisor ELSE Divisor)
           ELSE Value(regs.r) < (IF Divisor < 0 THEN -Divisor ELSE Divisor)

\* A DIV of a negative dividend by a positive divisor has left a remainder.
C20_Witness ==
    /\ DivExecuted
    /\ Dividend < 0
    /\ Divisor > 0
    /\ Value(regs.r) < 0

\* The opcode table: each assigned code with the variant it names.
OpcodeTable ==
    {<<Opcode_HLT, "Hlt">>, <<Opcode_ADD, "Add">>, <<Opcode_SUB, "Sub">>,
     <<Opcode_MUL, "Mul">>, <<Opcode_DIV, "Div">>, <<Opcode_LDA, "Lda">>,
     <<Opcode_STA, "Sta">>, <<Opcode_LDF, "Ldf">>, <<Opcode_STF, "Stf">>,
     <<Opcode_JMP, "Jmp">>, <<Opcode_LDAU, "LdaUnsigned">>, <<Opcode_JZ, "Jz">>,
     <<Opcode_JP, "Jp">>, <<Opcode_JN, "Jn">>, <<Opcode_NOP, "Nop">>,
     <<Opcode_SHL, "Shl">>, <<Opcode_SHR, "Shr">>, <<Opcode_LDR, "Ldr">>,
     <<Opcode_STR, "Str">>, <<Opcode_ADDABS, "AddAbs">>,
     <<Opcode_SUBABS, "SubAbs">>, <<Opcode_XCHG, "Xchg">>,
     <<Opcode_JOP, "Jop">>, <<Opcode_JON, "Jon">>, <<Opcode_TST, "Tst">>}

AssignedCodes == {p[1] : p \in OpcodeTable}

\* The three fields of an instruction word, read off its trits.
OpcodeField(w) == 9 * TritValue(w[8]) + 3 * TritValue(w[7]) + TritValue(w[6])

OperandField(w) ==
    81 * TritValue(w[4]) + 27 * TritValue(w[3]) + 9 * TritValue(w[2])
    + 3 * TritValue(w[1]) + TritValue(w[0])

ModeField(w) ==
    CASE w[5] = "O" -> "Direct" [] w[5] = "P" -> "IndexAdd" [] w[5] = "N" -> "IndexSub"

\* Instruction i is the variant op with the mode and operand of word w.
IsTableInstr(i, w, op) ==
    /\ i.op = op
    /\ op \in AddrOps =>
           /\ DOMAIN i.addr = 0..(Tryte9_WIDTH - 1)
           /\ Value(i.addr) = OperandField(w)
           /\ i.mode = ModeField(w)
    /\ op \in ShiftOps => i.count = OperandField(w)

\* C21: decode(w) returns InvalidOpcode(v) exactly when the opcode field
\* v = 9*t8 + 3*t7 + t6 of w is not an assigned code; for every assigned code
\* it returns the variant the opcode table gives for v, with the mode taken
\* from trit 5 and the operand (or shift count) equal to the signed value of
\* trits 4..0.
C21_DecodeByTable ==
    Answered("decode") =>
        /\ (answer.val = Err(InvalidOpcode(OpcodeField(query.word))))
               <=> (OpcodeField(query.word) \notin AssignedCodes)
        /\ \A p \in OpcodeTable :
               p[1] = OpcodeField(query.word)
                   => /\ answer.val.ok
                      /\ IsTableInstr(answer.val.val, query.word, p[2])

\* decode has refused the word N P O N O O O O P, whose opcode field is -6.
C21_Witness ==
    /\ Answered("decode")
    /\ OpcodeField(query.word) = -6
    /\ query.word[5] = "N"
    /\ OperandField(query.word) = 1
    /\ answer.val = Err(InvalidOpcode(-6))

\* The condition of a jump, on the values of S and omega it finds.
JumpCondition(op, s, omega) ==
    CASE op = "Jmp" -> TRUE
      [] op = "Jz"  -> Value(s) = 0
      [] op = "Jp"  -> Value(s) > 0
      [] op = "Jn"  -> Value(s) < 0
      [] op = "Jop" -> omega = "P"
      [] op = "Jon" -> omega = "N"

\* C22: a jump fetched from C = p sets C to its effective address exactly
\* when its condition holds (JMP always; JZ when S = 0; JP when S > 0; JN when
\* S < 0; JOP when omega = P; JON when omega = N) and otherwise leaves
\* C = p + 1; so with a positive S in the cell at address 10 the program
\* [LDA 10, JP 3, NOP, HLT] skips the NOP and halts after 3 cycles.
C22_JumpsFollowCondition ==
    /\ (/\ StepReturned
        /\ ret.before.state = "Running"
        /\ StepWord.ok
        /\ StepInstr.ok
        /\ StepInstr.val.op \in JumpOps)
       => /\ ret.res = Ok(StepInstr.val)
          /\ Value(regs.c) =
                IF JumpCondition(StepInstr.val.op, ret.before.regs.s,
                                 ret.before.regs.omega)
                THEN EffOf(StepInstr.val, ret.before.regs.f)
                ELSE Value(ret.before.regs.c) + 1
    /\ (RanFresh(ProgJp) /\ EntryCell(10) > 0)
       => /\ ret.res = Ok(3)
          /\ state = "Halted"
          /\ cycles = 3
          /\ Value(regs.c) = 4
          /\ last_instr = Some(PlainInstr("Hlt"))

\* A step has executed a JON fetched from address 1 with omega = N and has
\* set C to the operand address 10.
C22_Witness ==
    /\ StepReturned
    /\ ret.res.ok
    /\ ret.res.val.op = "Jon"
    /\ ret.before.regs.omega = "N"
    /\ Value(ret.before.regs.c) = 1
    /\ Value(regs.c) = 10

\* What the step() of the kernel query fetched and decoded, and its operand.
QueryWord == read_ternary(query.cpu.mem, query.cpu.regs.c)
QueryInstr == decode(QueryWord.val)
QueryEff == EffOf(QueryInstr.val, query.cpu.regs.f)
QueryOperand == Value(query.cpu.mem[QueryEff + 81])

\* The step() of the kernel query got as far as executing an instruction.
QueryExecutes ==
    /\ Answered("step")
    /\ query.cpu.state = "Running"
    /\ QueryWord.ok
    /\ QueryInstr.ok

\* The mathematical result of ADD, SUB, ADDABS, SUBABS on S = s and the
\* operand m.
MathResult(op, s, m) ==
    CASE op = "Add"    -> s + m
      [] op = "Sub"    -> s - m
      [] op = "AddAbs" -> s + Abs(m)
      [] op = "SubAbs" -> s - Abs(m)

\* s * 3^n lies outside the 18-trit range (n >= 0).
ShlOverflows(s, n) ==
    s # 0 /\ (n >= Word18_WIDTH \/ Abs(s) > Word18_MAX \div (3^n))

\* The step() of the kernel query executes an instruction whose mathematical
\* result lies outside the 18-trit range.
QueryOverflows ==
    /\ QueryExecutes
    /\ \/ /\ QueryInstr.val.op \in {"Add", "Sub", "AddAbs", "SubAbs"}
          /\ QueryEff \in -81..80
          /\ MathResult(QueryInstr.val.op, Value(query.cpu.regs.s), QueryOperand)
                \notin Word18_MIN..Word18_MAX
       \/ /\ QueryInstr.val.op = "Shl"
          /\ QueryInstr.val.count >= 0
          /\ ShlOverflows(Value(query.cpu.regs.s), QueryInstr.val.count)

\* C23: no step() call ever returns CpuError::Overflow: an ADD, SUB, ADDABS,
\* SUBABS or SHL whose mathematical result lies outside the 18-trit range
\* returns Ok, leaves the engine Running, and keeps no trace of the carry: R,
\* F and every memory cell are as before.
C23_NoOverflowTrap ==
    /\ Answered("step") => answer.val.res # Err(Overflow)
    /\ QueryOverflows =>
          /\ answer.val.res = Ok(QueryInstr.val)
          /\ answer.val.cpu.state = "Running"
          /\ answer.val.cpu.regs.r = query.cpu.regs.r
          /\ answer.val.cpu.regs.f = query.cpu.regs.f
          /\ answer.val.cpu.mem = query.cpu.mem

\* step() has executed an ADD of 1 to the largest 18-trit value.
C23_Witness ==
    /\ QueryOverflows
    /\ QueryInstr.val.op = "Add"
    /\ Value(query.cpu.regs.s) = Word18_MAX
    /\ QueryOperand = 1
    /\ answer.val.res.ok

\* The step() that has just returned failed after its fetch.
StepFailedAfterFetch ==
    /\ StepReturned
    /\ ret.before.state = "Running"
    /\ StepWord.ok
    /\ ~ret.res.ok

\* C24: when step() fails after the fetch - in decode (InvalidOpcode) or in
\* execute (operand AddressOutOfRange or DivisionByZero) - for a word fetched
\* from C = p, then on return C = p + 1 and S, R, F, omega, every memory cell,
\* the cycle counter and the last-instruction record are unchanged.
C24_FailedStepFrame ==
    StepFailedAfterFetch =>
        /\ \/ ret.res.err = InvalidOpcode(OpcodeField(StepWord.val))
           \/ /\ StepInstr.ok
              /\ StepInstr.val.op \in AddrOps
              /\ ret.res.err =
                    AddressOutOfRange(EffOf(StepInstr.val, ret.before.regs.f))
           \/ /\ StepInstr.ok
              /\ StepInstr.val.op = "Div"
              /\ ret.res.err = DivisionByZero
        /\ Value(regs.c) = Value(ret.before.regs.c) + 1
        /\ regs.s = ret.before.regs.s
        /\ regs.r = ret.before.regs.r
        /\ regs.f = ret.before.regs.f
        /\ regs.omega = ret.before.regs.omega
        /\ mem = ret.before.mem
        /\ cycles = ret.before.cycles
        /\ last_instr = ret.before.last_instr

\* A step() fetched an XCHG from address 1, after a step that had loaded a
\* non-zero S, and failed on its operand address.
C24_Witness ==
    /\ StepFailedAfterFetch
    /\ StepInstr.ok
    /\ StepInstr.val.op = "Xchg"
    /\ Value(ret.before.regs.c) = 1
    /\ ret.before.cycles = 1
    /\ Value(ret.before.regs.s) # 0

\* C25: if C is outside -81..80 when step() is called on a Running engine (for
\* example after a non-jump instruction executed at address 80), step()
\* returns MemoryError::AddressOutOfRange(C) without advancing C and without
\* changing any register, memory cell or the cycle counter.
C25_FetchOutOfRange ==
    (/\ Answered("step")
     /\ query.cpu.state = "Running"
     /\ Value(query.cpu.regs.c) \notin -81..80)
    => /\ answer.val.res = Err(AddressOutOfRange(Value(query.cpu.regs.c)))
       /\ answer.val.cpu.regs = query.cpu.regs
       /\ answer.val.cpu.mem = query.cpu.mem
       /\ answer.val.cpu.cycles = query.cpu.cycles
       /\ answer.val.cpu.last_instr = query.cpu.last_instr

\* step() was called with C = 81, the value a NOP at address 80 leaves, with
\* a non-zero S and data in memory, and has returned AddressOutOfRange.
C25_Witness ==
    /\ Answered("step")
    /\ Value(query.cpu.regs.c) = 81
    /\ Value(query.cpu.regs.s) = 2
    /\ Value(query.cpu.mem[10 + 81]) = 1
    /\ ~answer.val.res.ok

\* The instruction at C: what a step() called now would fetch and decode.
NextWord == read_ternary(mem, regs.c)
NextInstr == decode(NextWord.val)

\* step() called by the environment counts one cycle and records the executed
\* instruction when it returns Ok, and leaves both alone when it fails.
StepCounts ==
    StepReturned =>
        IF ret.res.ok
        THEN /\ cycles = ret.before.cycles + 1
             /\ ret.res.val = StepInstr.val
             /\ last_instr = Some(ret.res.val)
        ELSE /\ cycles = ret.before.cycles
             /\ last_instr = ret.before.last_instr

\* run() returns the difference of the cycle counter; [HLT] gives 1 and
\* [NOP, NOP, NOP, HLT] gives 4.
RunCounts ==
    /\ (call = NoCall /\ ret.op = "run" /\ ret.res.ok)
          => ret.res.val = cycles - ret.entry.cycles
    /\ RanFresh(<<encode(PlainInstr("Hlt"))>>)
          => ret.res = Ok(1) /\ state = "Halted" /\ cycles = 1
    /\ RanFresh(ProgNops)
          => ret.res = Ok(4) /\ state = "Halted" /\ cycles = 4

\* A step() inside run(): the loop goes on with one more cycle and the
\* executed instruction recorded, or run() returns the error of the step with
\* the cycle counter and the record as they were.
RunStepCounts ==
    (call.fn = "run" /\ state = "Running") =>
        \/ /\ call' = call
           /\ cycles' = cycles + 1
           /\ NextWord.ok /\ NextInstr.ok
           /\ last_instr' = Some(NextInstr.val)
        \/ /\ call' = NoCall
           /\ ~ret'.res.ok
           /\ cycles' = cycles
           /\ last_instr' = last_instr

\* C26: the cycle counter increases by exactly 1 and the last-instruction
\* record becomes the executed instruction on every step() that returns Ok
\* (including the step that executes HLT), and both are unchanged by every
\* step() that returns an error; run() returns the number of successful steps
\* it performed, so [HLT] gives 1 and [NOP, NOP, NOP, HLT] gives 4.
C26_CyclesCountSteps ==
    /\ [](StepCounts /\ RunCounts)
    /\ [][RunStepCounts]_vars

\* run() was called after one step had been made, went through a NOP
\* and a HLT, and has returned 2.
C26_Witness ==
    /\ call = NoCall
    /\ ret.op = "run"
    /\ ret.entry.cycles = 1
    /\ ret.res = Ok(2)
    /\ cycles = 3
    /\ last_instr = Some(PlainInstr("Hlt"))

\* C27: every 9-trit word whose opcode field is the HLT code decodes to Hlt,
\* and every word whose opcode field is the NOP code decodes to Nop, whatever
\* its mode trit and operand trits are; in particular the all-zero cell
\* decodes to Hlt, so a fresh engine with no program loaded halts on its
\* first step.
C27_HltNopIgnoreOperand ==
    /\ (Answered("decode") /\ OpcodeField(query.word) = Opcode_HLT)
          => answer.val = Ok([op |-> "Hlt"])
    /\ (Answered("decode") /\ OpcodeField(query.word) = Opcode_NOP)
          => answer.val = Ok([op |-> "Nop"])
    /\ (Answered("decode") /\ \A i \in DOMAIN query.word : query.word[i] = "O")
          => answer.val = Ok([op |-> "Hlt"])
    /\ (Answered("step") /\ query.cpu = Cpu_new)
          => /\ answer.val.res = Ok([op |-> "Hlt"])
             /\ answer.val.cpu.state = "Halted"
             /\ answer.val.cpu.cycles = 1

\* decode has returned Hlt for a word with the HLT code, mode trit N and
\* operand -121.
C27_Witness ==
    /\ Answered("decode")
    /\ OpcodeField(query.word) = Opcode_HLT
    /\ query.word[5] = "N"
    /\ OperandField(query.word) = -121
    /\ answer.val = Ok([op |-> "Hlt"])

\* C28: for every 18-trit word x, add(x, neg(x)) returns the zero word with
\* carry O.
C28_AdditiveInverse ==
    Answered("add_neg") =>
        /\ \A i \in 0..(Word18_WIDTH - 1) : answer.val[1][i] = "O"
        /\ DOMAIN answer.val[1] = 0..(Word18_WIDTH - 1)
        /\ answer.val[2] = "O"

\* add has been applied to the smallest 18-trit value (all trits N) and its
\* negation.
C28_Witness ==
    /\ Answered("add_neg")
    /\ Value(query.a) = Word18_MIN
    /\ answer.val[2] = "O"

\* C29: for all 18-trit words x and y, add(x, y) and add(y, x) return the
\* same sum word and the same carry.
C29_AddCommutes ==
    Answered("add") =>
        /\ answer.val[1] = add(query.b, query.a)[1]
        /\ answer.val[2] = add(query.b, query.a)[2]

\* add has been applied to 7 and the largest 18-trit value, with a carry out.
C29_Witness ==
    /\ Answered("add")
    /\ Value(query.a) = 7
    /\ Value(query.b) = Word18_MAX
    /\ answer.val[2] = "P"

\* C30: for every integer v in the range of each width, converting to a word
\* and back returns v: Tryte9::from_i32(v).to_i32() = v for v in -9841..9841,
\* Tryte5::from_i32(v).to_i32() = v for v in -121..121, and
\* Word18::from_i64(v).to_i64() = v for v in -193710244..193710244.
C30_ConversionRoundTrip ==
    Answered("round_trip") => answer.val = query.v

\* The smallest 18-trit value has been converted to a word and back.
C30_Witness ==
    /\ Answered("round_trip")
    /\ query.width = 18
    /\ query.v = -193710244
    /\ answer.val = -193710244

\* Line l of a source puts a word on the output.
Emits(l) == l.mnemonic.some /\ l.mnemonic.val # "ORG"

\* The output position (from 1) of the word line k of src emits.
OutPos(src, k) == Cardinality({j \in 1..(k - 1) : Emits(src[j])}) + 1

\* The address at which line k of src is assembled: the operand of the last
\* ORG before it (0 if none) plus the words emitted since.
AddrAt(src, k) ==
    LET orgs == {j \in 1..(k - 1) : src[j].mnemonic = Some("ORG")}
        last == IF orgs = {} THEN 0 ELSE CHOOSE j \in orgs : \A i \in orgs : i <= j
        base == IF orgs = {} THEN 0 ELSE src[last].operand.val.val
    IN  base + Cardinality({j \in (last + 1)..(k - 1) : Emits(src[j])})

\* The lines of src that define the label name.
LabelDefs(src, name) == {k \in 1..Len(src) : src[k].label = Some(name)}

\* Line k of src is an instruction whose operand is a label that src defines
\* once.
UsesLabel(src, k) ==
    /\ src[k].mnemonic.some
    /\ src[k].mnemonic.val \notin {"ORG", "DAT", "DATA"}
    /\ src[k].operand.some
    /\ ~src[k].operand.val.num
    /\ Cardinality(LabelDefs(src, src[k].operand.val.name)) = 1

\* The address of the label line k of src refers to.
LabelAddr(src, k) ==
    AddrAt(src, CHOOSE d \in LabelDefs(src, src[k].operand.val.name) : TRUE)

\* The opcode of the mnemonics of the sampled sources, and the mode of a suffix.
MnemonicCode(m) ==
    CASE m = "JMP" -> Opcode_JMP [] m = "JZ" -> Opcode_JZ
      [] m = "ADD" -> Opcode_ADD [] m = "LDA" -> Opcode_LDA

SuffixMode(s) ==
    CASE s \in {",F+", ",F"} -> "IndexAdd" [] s = ",F-" -> "IndexSub" [] OTHER -> "Direct"

\* C31: for every assembly source in which an instruction's operand is a
\* label defined anywhere in the source (before or after the use), assemble()
\* emits at that instruction's output position the encoding of that
\* instruction - its own opcode and mode - with the operand field equal to
\* the label's address.
C31_LabelsResolveInPlace ==
    (Answered("assemble") /\ answer.val.ok) =>
        \A k \in 1..Len(query.source) :
            UsesLabel(query.source, k) =>
                /\ OutPos(query.source, k) \in DOMAIN answer.val.val
                /\ OpcodeField(answer.val.val[OutPos(query.source, k)])
                      = MnemonicCode(query.source[k].mnemonic.val)
                /\ ModeField(answer.val.val[OutPos(query.source, k)])
                      = SuffixMode(query.source[k].operand.val.suffix)
                /\ OperandField(answer.val.val[OutPos(query.source, k)])
                      = LabelAddr(query.source, k)

\* C32: after a successful XCHG with effective address x, cell x holds the
\* low 9 trits of the old S, S holds the zero-extension of the old content
\* of cell x (its high 9 trits are zero), and no other memory cell and
\* neither R nor F changes.
C32_XchgSwaps ==
    (QueryExecutes /\ QueryInstr.val.op = "Xchg" /\ answer.val.res.ok) =>
        /\ QueryEff \in -81..80
        /\ answer.val.cpu.mem[QueryEff + 81]
              = [i \in 0..8 |-> query.cpu.regs.s[i]]
        /\ answer.val.cpu.regs.s
              = [i \in 0..17 |-> IF i < 9 THEN query.cpu.mem[QueryEff + 81][i] ELSE "O"]
        /\ \A j \in DOMAIN query.cpu.mem :
              j # QueryEff + 81 => answer.val.cpu.mem[j] = query.cpu.mem[j]
        /\ DOMAIN answer.val.cpu.mem = DOMAIN query.cpu.mem
        /\ answer.val.cpu.regs.r = query.cpu.regs.r
        /\ answer.val.cpu.regs.f = query.cpu.regs.f

\* An XCHG at address 80 has exchanged S = 193710243, whose halves differ,
\* with the cell at address 10 holding -9841.
C32_Witness ==
    /\ QueryExecutes
    /\ QueryInstr.val.op = "Xchg"
    /\ answer.val.res.ok
    /\ Value(query.cpu.regs.c) = 80
    /\ Value(query.cpu.regs.s) = Word18_MAX - 1
    /\ QueryOperand = Tryte9_MIN
    /\ Value(answer.val.cpu.regs.s) = Tryte9_MIN

\* The instructions that are not marked as setting omega.
QuietOps == {"Sta", "Stf", "Str", "Ldf", "Ldr", "Jmp", "Jz", "Jp", "Jn", "Jop",
             "Jon", "Hlt", "Nop"}

\* The memory indices whose cell the step() that has just returned changed.
ChangedCells == {i \in DOMAIN mem : mem[i] # ret.before.mem[i]}

\* C33: every successful step that executes an instruction not marked as
\* omega-setting - STA, STF, STR, LDF, LDR, JMP, JZ, JP, JN, JOP, JON, HLT or
\* NOP - leaves both S and omega unchanged; STA, STF and STR change no memory
\* cell but the one at their effective address, and LDF and LDR change only
\* F and R respectively (besides C).
C33_QuietInstructions ==
    (StepReturned /\ ret.res.ok /\ ret.res.val.op \in QuietOps) =>
        /\ regs.s = ret.before.regs.s
        /\ regs.omega = ret.before.regs.omega
        /\ ret.res.val.op \in {"Sta", "Stf", "Str"} =>
              /\ ChangedCells \subseteq {EffOf(ret.res.val, ret.before.regs.f) + 81}
              /\ regs.r = ret.before.regs.r
              /\ regs.f = ret.before.regs.f
        /\ ret.res.val.op = "Ldf" =>
              /\ mem = ret.before.mem
              /\ regs.r = ret.before.regs.r
        /\ ret.res.val.op = "Ldr" =>
              /\ mem = ret.before.mem
              /\ regs.f = ret.before.regs.f

\* A STA has stored a non-zero S in a cell that held something else.
C33_Witness ==
    /\ StepReturned
    /\ ret.res.ok
    /\ ret.res.val.op = "Sta"
    /\ Value(regs.s) # 0
    /\ ChangedCells # {}

\* C34: in every state reachable from a fresh engine through load_program,
\* step, run, run_limited and reset, omega equals the sign of S - not only
\* right after omega-setting instructions - so JOP and JON always take the
\* same branch as JP and JN: a JOP or JON that step() executed was taken
\* exactly when S was positive or negative respectively.
C34_OmegaTracksS ==
    /\ regs.omega = SignOf(Value(regs.s))
    /\ (StepReturned /\ ret.res.ok /\ ret.res.val.op \in {"Jop", "Jon"}) =>
          LET taken == Value(regs.c) = EffOf(ret.res.val, ret.before.regs.f)
              fall  == Value(regs.c) = Value(ret.before.regs.c) + 1
              cond  == IF ret.res.val.op = "Jop" THEN Value(ret.before.regs.s) > 0
                       ELSE Value(ret.before.regs.s) < 0
          IN  IF cond THEN taken ELSE fall

\* A step has executed a JON, which sets neither S nor omega, with S
\* negative and omega = N, and the jump was taken.
C34_Witness ==
    /\ StepReturned
    /\ ret.res.ok
    /\ ret.res.val.op = "Jon"
    /\ Value(regs.s) < 0
    /\ regs.omega = "N"
    /\ Value(regs.c) = 10

\* C35: in every state reachable from a fresh engine through load_program,
\* step, run, run_limited and reset, C stays within -242..242 and F within
\* -121..121, so no range assertion of Tryte9::from_i32, Tryte5::from_i32 or
\* Word18::from_i64 and no memory index check can fail inside step(): step()
\* always returns Ok or a CpuError and never panics.  The engine of the state
\* machine satisfies the bounds, and step() applied to an engine that
\* satisfies them returns a result and an engine that satisfies them.
C35_StepNeverPanics ==
    /\ Value(regs.c) \in -242..242
    /\ Value(regs.f) \in -121..121
    /\ (/\ Answered("step")
        /\ Value(query.cpu.regs.c) \in -242..242
        /\ Value(query.cpu.regs.f) \in -121..121)
       => /\ answer.val.res.ok \in BOOLEAN
          /\ DOMAIN answer.val.cpu.regs.c = 0..8
          /\ DOMAIN answer.val.cpu.regs.f = 0..4
          /\ DOMAIN answer.val.cpu.regs.s = 0..17
          /\ DOMAIN answer.val.cpu.regs.r = 0..17
          /\ Value(answer.val.cpu.regs.c) \in -242..242
          /\ Value(answer.val.cpu.regs.f) \in -121..121
          /\ \A i \in DOMAIN answer.val.cpu.mem : DOMAIN answer.val.cpu.mem[i] = 0..8

\* A JMP -121 indexed by F = -121 has set C to -242.
C35_Witness ==
    /\ QueryExecutes
    /\ QueryInstr.val.op = "Jmp"
    /\ Value(query.cpu.regs.f) = -121
    /\ answer.val.res.ok
    /\ Value(answer.val.cpu.regs.c) = -242

\* C36: for none of the 19683 nine-trit words does decode return Tst (the
\* opcode field of three trits only ranges over -13..13 while TST is assigned
\* 14), so no step() ever executes or records TST.
C36_TstNeverDecoded ==
    /\ Answered("decode") =>
          /\ OpcodeField(query.word) \in -13..13
          /\ OpcodeField(query.word) # Opcode_TST
          /\ answer.val.ok => answer.val.val.op # "Tst"
    /\ Answered("step") =>
          /\ answer.val.res.ok => answer.val.res.val.op # "Tst"
          /\ answer.val.cpu.last_instr.some => answer.val.cpu.last_instr.val.op # "Tst"
    /\ last_instr.some => last_instr.val.op # "Tst"

\* The word with the largest opcode field, +13, was decoded: it is JOP.
C36_Witness ==
    /\ Answered("decode")
    /\ OpcodeField(query.word) = 13
    /\ answer.val.ok
    /\ answer.val.val.op = "Jop"

\* C37: a SHL or SHR whose decoded count is negative (the operand field
\* ranges over -121..121) sets S to zero and omega to O, exactly like a count
\* of 18 or more; it never shifts in the opposite direction and never fails.
C37_NegativeShiftClears ==
    (/\ QueryExecutes
     /\ OpcodeField(QueryWord.val) \in {Opcode_SHL, Opcode_SHR}
     /\ (OperandField(QueryWord.val) < 0 \/ OperandField(QueryWord.val) >= Word18_WIDTH))
    => /\ answer.val.res.ok
       /\ answer.val.res.val.op = (IF OpcodeField(QueryWord.val) = Opcode_SHL THEN "Shl" ELSE "Shr")
       /\ answer.val.res.val.count = OperandField(QueryWord.val)
       /\ Value(answer.val.cpu.regs.s) = 0
       /\ answer.val.cpu.regs.omega = "O"
       /\ answer.val.cpu.state = "Running"

\* SHR with count -1 ran on S = 2, which a shift by one place to the left
\* would have made 6, and S is zero.
C37_Witness ==
    /\ QueryExecutes
    /\ OpcodeField(QueryWord.val) = Opcode_SHR
    /\ OperandField(QueryWord.val) = -1
    /\ Value(query.cpu.regs.s) = 2
    /\ Value(shift_left(query.cpu.regs.s, 1)) = 6
    /\ answer.val.res.ok
    /\ Value(answer.val.cpu.regs.s) = 0

\* The engine halts in this transition.
Halts == state # "Halted" /\ state' = "Halted"

\* C38: in every state reachable from a fresh engine through load_program,
\* step, run, run_limited and reset: if the state is Halted then the
\* last-instruction record is Some(Hlt) and cycles >= 1, and the state is
\* Halted only as the result of a step that executed HLT (the word C pointed
\* at had the opcode field of HLT, the step counted one cycle, advanced C and
\* recorded Hlt).
C38_HaltedByHlt ==
    /\ [](state = "Halted" => (last_instr = Some(PlainInstr("Hlt")) /\ cycles >= 1))
    /\ [][Halts =>
             /\ Value(regs.c) \in -81..80
             /\ OpcodeField(mem[Value(regs.c) + 81]) = Opcode_HLT
             /\ last_instr' = Some(PlainInstr("Hlt"))
             /\ cycles' = cycles + 1
             /\ Value(regs.c') = Value(regs.c) + 1
             /\ mem' = mem]_vars

\* A step() executed HLT and halted the engine after two instructions had run.
C38_Witness ==
    /\ StepReturned
    /\ state = "Halted"
    /\ cycles = 3
    /\ last_instr = Some(PlainInstr("Hlt"))
    /\ ret.res = Ok(PlainInstr("Hlt"))

\* The codes of the instructions that carry an address and a mode.
AddrCodes ==
    {Opcode_ADD, Opcode_SUB, Opcode_MUL, Opcode_DIV, Opcode_ADDABS, Opcode_SUBABS,
     Opcode_LDA, Opcode_LDAU, Opcode_STA, Opcode_LDF, Opcode_STF, Opcode_LDR,
     Opcode_STR, Opcode_XCHG, Opcode_JMP, Opcode_JZ, Opcode_JP, Opcode_JN,
     Opcode_JOP, Opcode_JON}

\* C39: for every 9-trit word w whose opcode field is the code of an
\* address-carrying instruction (ADD, SUB, MUL, DIV, ADDABS, SUBABS, LDA,
\* LDAU, STA, LDF, STF, LDR, STR, XCHG, JMP, JZ, JP, JN, JOP, JON),
\* encode(decode(w)) = w.
C39_DecodeEncodeRoundTrip ==
    (Answered("decode_encode") /\ OpcodeField(query.word) \in AddrCodes)
    => /\ answer.val.ok
       /\ answer.val.val = query.word

\* The word of JON with the index-subtract mode and the operand -121, every
\* trit N but one, came back from encode(decode(w)).
C39_Witness ==
    /\ Answered("decode_encode")
    /\ OpcodeField(query.word) = Opcode_JON
    /\ ModeField(query.word) = "IndexSub"
    /\ OperandField(query.word) = Tryte5_MIN
    /\ answer.val = Ok(query.word)

====
